---------------------------- MODULE Spec2Model ----------------------------
(***************************************************************************)
(* Server-side room and round orchestration of the multiplayer word game:  *)
(* the game state machine (server/gameLogic.js), the room registry and     *)
(* timer orchestrator (server/roomManager.js) and the session protocol     *)
(* handlers (server/socketHandlers.js).                                    *)
(*                                                                         *)
(* The process is a single-threaded event loop: every inbound event        *)
(* handler and every timer callback runs to completion, so each is one     *)
(* action.  Time is kept in whole seconds as the delay that remains on     *)
(* each pending timer; Tick lets time pass up to the next deadline.        *)
(* Wall-clock stamps that the server only writes (createdAt, joinedAt,     *)
(* submittedAt, roundStartTime, roundEndTime, endedAt, finishedAt) are not *)
(* part of the state.                                                      *)
(***************************************************************************)
EXTENDS Integers, Sequences, FiniteSets, Bags, TLC

(***************************************************************************)
(* Program constants                                                       *)
(***************************************************************************)
ROUND_DURATION == 90

TOTAL_ROUNDS == 3

MIN_WORD_LENGTH == 4

MIN_PLAYERS == 2

MAX_PLAYERS == 8

COUNTDOWN_DURATION == 3

GRACE_SECONDS == 2

CLEANUP_SECONDS == 300

INTERVAL_SECONDS == 1

maxAttempts == 100

PANGRAM_BONUS == 25

(***************************************************************************)
(* Bounds of the model                                                     *)
(***************************************************************************)
\* Longest stretch of time, in seconds, after which a running round clock
\* gets its next callback (callbacks in between only repeat timer-update).
TickStride == 45

\* Socket ids of the lobby specification: one more than a room can hold.
LobbyIds == 9

\* Rounds played in each room of the two-room specification
FirstRoomRounds == 2

SecondRoomRounds == 1

(***************************************************************************)
(* Input domains                                                           *)
(***************************************************************************)
Ids == {1, 2}

Codes == {"1000"}

Puzzles == {"p1"}

NameOf(p) == <<"name", p>>

\* `Player ${n}`
DefaultName(n) == <<"Player", n>>

NoName == <<>>

\* String.prototype.toLowerCase on the words the clients send
ToLowerCase(w) ==
    CASE w = "ACNE" -> "acne"
      [] w = "Allowance" -> "allowance"
      [] OTHER -> w

WordLength(w) ==
    CASE w = "acne" -> 4
      [] w = "ACNE" -> 4
      [] w = "allowance" -> 9
      [] w = "Allowance" -> 9
      [] w = "bee" -> 3
      [] w = "apple" -> 5
      [] w = "banana" -> 6
      [] w = "letters" -> 7
      [] OTHER -> 0

Word(w, pts, pan) == [word |-> w, points |-> pts, isPangram |-> pan]

\* What a client may send with submit-round-results: {words, totalScore}
Submissions ==
    { [words |-> <<>>, totalScore |-> 0],
      [words |-> <<Word("ACNE", 16, FALSE)>>, totalScore |-> 16] }

\* What socket p sends in the system specifications: the first socket
\* finds no word, the others either none or one.
SubmissionsOf(p) == IF p = 1 THEN { x \in Submissions : x.totalScore = 0 }
                    ELSE Submissions

(***************************************************************************)
(* gameLogic.js                                                            *)
(***************************************************************************)
\* F applied to the value of v (a local const of the source, bound once)
With(v, F(_)) == [x \in {v} |-> F(x)][v]

calculateWordPoints(word) ==
    LET length == WordLength(word)
    IN  IF length < MIN_WORD_LENGTH THEN 0 ELSE length * length

calculateTotalPoints(word, isPangram) ==
    calculateWordPoints(word) + (IF isPangram THEN PANGRAM_BONUS ELSE 0)

Undefined == [undefined |-> TRUE]

createGame(roomCode, initialPuzzle) ==
    [ roomCode     |-> roomCode,
      puzzle       |-> initialPuzzle,
      puzzles      |-> <<initialPuzzle>>,
      currentRound |-> 0,
      totalRounds  |-> TOTAL_ROUNDS,
      gameStatus   |-> "waiting",
      roundStatus  |-> "waiting",
      players      |-> << >>,
      order        |-> << >>,
      roundResults |-> << >>,
      finalResults |-> [isNull |-> TRUE] ]

\* Object.keys(game.players): the ids in insertion order
PlayerIds(game) == DOMAIN game.players

PlayerCount(game) == Cardinality(PlayerIds(game))

addPlayerThrows(game) == PlayerCount(game) >= MAX_PLAYERS

\* hasSubmittedResults is not set here: it stays undefined until the first
\* startRound, restartGame or processRoundResults writes it.
NewPlayer(game, playerId, playerName) ==
    [ id         |-> playerId,
      name       |-> IF playerName # NoName THEN playerName
                     ELSE DefaultName(PlayerCount(game) + 1),
      words      |-> << >>,
      roundScore |-> 0,
      totalScore |-> 0,
      ready      |-> FALSE,
      connected  |-> TRUE,
      hasSubmittedResults |-> "undefined" ]

\* game.players[playerId] = {...}: an existing key keeps its place in the
\* key order and gets the new record.
addPlayer(game, playerId, playerName) ==
    [ game EXCEPT
        !.players = [ q \in PlayerIds(game) \cup {playerId} |->
                        IF q = playerId
                        THEN NewPlayer(game, playerId, playerName)
                        ELSE game.players[q] ],
        !.order   = IF playerId \in PlayerIds(game) THEN game.order
                    ELSE Append(game.order, playerId) ]

AllReadyConnected(game) ==
    \A q \in PlayerIds(game) : game.players[q].ready /\ game.players[q].connected

canStartGame(game) ==
    /\ PlayerCount(game) >= MIN_PLAYERS
    /\ AllReadyConnected(game)
    /\ game.gameStatus = "waiting"

\* Variant: the round limit tested with > in place of >=
startRoundThrowsLate(game) == game.currentRound > TOTAL_ROUNDS

startRoundThrows(game) == game.currentRound >= TOTAL_ROUNDS

\* Variant: startRound that sets roundStatus and leaves gameStatus
startRoundKeepsGameStatus(game, newPuzzle) ==
    LET round == game.currentRound + 1
    IN  [ game EXCEPT
            !.currentRound = round,
            !.roundStatus = "active",
            !.players = [ q \in PlayerIds(game) |->
                            [ game.players[q] EXCEPT
                                !.words = << >>,
                                !.roundScore = 0,
                                !.ready = FALSE,
                                !.hasSubmittedResults = "false" ] ] ]

\* Variant: startRound that fetches a puzzle for the first round as well
startRoundAlwaysFetches(game, newPuzzle) ==
    LET round == game.currentRound + 1
    IN  [ game EXCEPT
            !.currentRound = round,
            !.puzzle  = newPuzzle,
            !.puzzles = Append(game.puzzles, newPuzzle),
            !.gameStatus  = "playing",
            !.roundStatus = "active",
            !.players = [ q \in PlayerIds(game) |->
                            [ game.players[q] EXCEPT
                                !.words = << >>,
                                !.roundScore = 0,
                                !.ready = FALSE,
                                !.hasSubmittedResults = "false" ] ] ]

\* Variant: startRound that leaves what the players submitted last
startRoundKeepsSubmitted(game, newPuzzle) ==
    LET round == game.currentRound + 1
    IN  [ game EXCEPT
            !.currentRound = round,
            !.puzzle  = IF round > 1 THEN newPuzzle ELSE game.puzzle,
            !.puzzles = IF round > 1 THEN Append(game.puzzles, newPuzzle)
                        ELSE game.puzzles,
            !.gameStatus  = "playing",
            !.roundStatus = "active",
            !.players = [ q \in PlayerIds(game) |->
                            [ game.players[q] EXCEPT
                                !.ready = FALSE,
                                !.hasSubmittedResults = "false" ] ] ]

startRound(game, newPuzzle) ==
    LET round == game.currentRound + 1
    IN  [ game EXCEPT
            !.currentRound = round,
            !.puzzle  = IF round > 1 THEN newPuzzle ELSE game.puzzle,
            !.puzzles = IF round > 1 THEN Append(game.puzzles, newPuzzle)
                        ELSE game.puzzles,
            !.gameStatus  = "playing",
            !.roundStatus = "active",
            !.players = [ q \in PlayerIds(game) |->
                            [ game.players[q] EXCEPT
                                !.words = << >>,
                                !.roundScore = 0,
                                !.ready = FALSE,
                                !.hasSubmittedResults = "false" ] ] ]

processRoundResultsThrows(game, playerId) == playerId \notin PlayerIds(game)

SubmittedWords(results) ==
    [ i \in 1..Len(results.words) |->
        [ word      |-> ToLowerCase(results.words[i].word),
          points    |-> results.words[i].points,
          isPangram |-> results.words[i].isPangram ] ]

\* Variant: a submission is added to what the player had submitted before
processRoundResultsAccumulates(game, playerId, results) ==
    [ game EXCEPT
        !.players[playerId].words = @ \o SubmittedWords(results),
        !.players[playerId].roundScore = @ + results.totalScore,
        !.players[playerId].hasSubmittedResults = "true" ]

processRoundResults(game, playerId, results) ==
    [ game EXCEPT
        !.players[playerId].words = SubmittedWords(results),
        !.players[playerId].roundScore = results.totalScore,
        !.players[playerId].hasSubmittedResults = "true" ]

\* game.roundResults.find(r => r.round === roundNumber)
RECURSIVE FindRound(_, _, _)
FindRound(results, roundNumber, i) ==
    IF i > Len(results) THEN Undefined
    ELSE IF results[i].round = roundNumber THEN results[i]
    ELSE FindRound(results, roundNumber, i + 1)

getRoundResults(game, roundNumber) == FindRound(game.roundResults, roundNumber, 1)

\* Array.prototype.sort((a, b) => b.totalScore - a.totalScore): stable,
\* so equal scores keep the key order of game.players.  RankByScore(s, i)
\* is the place the sort gives to s[i].
\* Variant: a sort that puts the later of two equal scores first
RankByScoreTiesReversed(s, i) ==
    1 + Cardinality({ j \in 1..Len(s) :
                        \/ s[j].totalScore > s[i].totalScore
                        \/ s[j].totalScore = s[i].totalScore /\ j > i })

RankByScore(s, i) ==
    1 + Cardinality({ j \in 1..Len(s) :
                        \/ s[j].totalScore > s[i].totalScore
                        \/ s[j].totalScore = s[i].totalScore /\ j < i })

SortByScore(s) ==
    With(s, LAMBDA a :
        [ k \in 1..Len(a) |-> a[CHOOSE i \in 1..Len(a) : RankByScore(a, i) = k] ])

RECURSIVE TotalWords(_, _, _)
TotalWords(results, playerId, i) ==
    IF i > Len(results) THEN 0
    ELSE (IF playerId \in DOMAIN results[i].players
          THEN results[i].players[playerId].wordCount ELSE 0)
         + TotalWords(results, playerId, i + 1)

PlayerScores(game) ==
    SortByScore([ i \in 1..Len(game.order) |->
        [ id         |-> game.order[i],
          name       |-> game.players[game.order[i]].name,
          totalScore |-> game.players[game.order[i]].totalScore,
          totalWords |-> TotalWords(game.roundResults, game.order[i], 1) ] ])

\* Variant: a tie is never declared
IsTieNever(playerScores) == FALSE

IsTieOf(playerScores) ==
    /\ Len(playerScores) > 1
    /\ Cardinality({ i \in 1..Len(playerScores) :
                       playerScores[i].totalScore = playerScores[1].totalScore }) > 1

\* A game always has a player (createRoom seats the creator); with none,
\* winner would be undefined.
finishGame(game) ==
    With(PlayerScores(game), LAMBDA playerScores :
        LET isTie == IsTieOf(playerScores)
        IN  [ game EXCEPT
                !.gameStatus = "finished",
                !.finalResults =
                    [ isNull      |-> FALSE,
                      winner      |-> IF isTie THEN [isNull |-> TRUE]
                                      ELSE IF playerScores = << >> THEN Undefined
                                      ELSE playerScores[1],
                      isTie       |-> isTie,
                      finalScores |-> playerScores,
                      puzzlesUsed |-> game.puzzles ] ])

RoundResultOf(game) ==
    [ round   |-> game.currentRound,
      puzzle  |-> game.puzzle,
      players |-> [ q \in PlayerIds(game) |->
                     [ name       |-> game.players[q].name,
                       words      |-> game.players[q].words,
                       roundScore |-> game.players[q].roundScore,
                       totalScore |-> game.players[q].totalScore,
                       wordCount  |-> Len(game.players[q].words) ] ] ]

\* Variant: endRound that goes to between-rounds after every round
endRoundActiveNeverFinishes(game) ==
    LET scored == [ game EXCEPT
                      !.roundStatus = "ended",
                      !.players = [ q \in PlayerIds(game) |->
                          [ game.players[q] EXCEPT
                              !.totalScore = game.players[q].totalScore
                                             + game.players[q].roundScore ] ] ]
    IN  [ scored EXCEPT
            !.roundResults = Append(scored.roundResults, RoundResultOf(scored)),
            !.gameStatus = "between-rounds" ]

\* endRound past its first test: the round is scored, recorded and closed
endRoundActive(game) ==
    With([ game EXCEPT
             !.roundStatus = "ended",
             !.players = [ q \in PlayerIds(game) |->
                 [ game.players[q] EXCEPT
                     !.totalScore = game.players[q].totalScore
                                    + game.players[q].roundScore ] ] ],
         LAMBDA scored :
           With([ scored EXCEPT
                    !.roundResults = Append(scored.roundResults,
                                            RoundResultOf(scored)) ],
                LAMBDA pushed :
                  IF pushed.currentRound >= TOTAL_ROUNDS
                  THEN finishGame(pushed)
                  ELSE [ pushed EXCEPT !.gameStatus = "between-rounds" ]))

\* Variant: endRound without its test of roundStatus
endRoundNoGuard(game) == endRoundActive(game)

\* The game after endRound(game)
endRound(game) ==
    IF game.roundStatus = "ended" THEN game ELSE endRoundActive(game)

\* The value endRound(game) returns
endRoundResult(game) ==
    IF game.roundStatus = "ended"
    THEN getRoundResults(game, game.currentRound)
    ELSE LET after == endRound(game)
         IN  after.roundResults[Len(after.roundResults)]

canStartNextRound(game) ==
    IF game.gameStatus # "between-rounds" THEN FALSE
    ELSE AllReadyConnected(game)

setPlayerReadyThrows(game, playerId) == playerId \notin PlayerIds(game)

setPlayerReady(game, playerId, ready) ==
    [ game EXCEPT !.players[playerId].ready = ready ]

\* Variant: canRestartGame without its test of ready and connected
canRestartGameUnasked(game) ==
    IF game.gameStatus # "finished" THEN FALSE
    ELSE PlayerCount(game) >= MIN_PLAYERS

canRestartGame(game) ==
    IF game.gameStatus # "finished" THEN FALSE
    ELSE PlayerCount(game) >= MIN_PLAYERS /\ AllReadyConnected(game)

\* Variant: restartGame without its test of gameStatus
restartGameThrowsNever(game) == FALSE

restartGameThrows(game) == game.gameStatus # "finished"

\* Variant: a restart that leaves every player's totalScore as it was
restartGameKeepsScores(game, newPuzzle) ==
    [ game EXCEPT
        !.puzzle       = newPuzzle,
        !.puzzles      = <<newPuzzle>>,
        !.currentRound = 0,
        !.gameStatus   = "waiting",
        !.roundStatus  = "waiting",
        !.roundResults = << >>,
        !.finalResults = [isNull |-> TRUE],
        !.players = [ q \in PlayerIds(game) |->
                        [ game.players[q] EXCEPT
                            !.words = << >>,
                            !.roundScore = 0,
                            !.ready = FALSE,
                            !.hasSubmittedResults = "false" ] ] ]

restartGame(game, newPuzzle) ==
    [ game EXCEPT
        !.puzzle       = newPuzzle,
        !.puzzles      = <<newPuzzle>>,
        !.currentRound = 0,
        !.gameStatus   = "waiting",
        !.roundStatus  = "waiting",
        !.roundResults = << >>,
        !.finalResults = [isNull |-> TRUE],
        !.players = [ q \in PlayerIds(game) |->
                        [ game.players[q] EXCEPT
                            !.words = << >>,
                            !.roundScore = 0,
                            !.totalScore = 0,
                            !.ready = FALSE,
                            !.hasSubmittedResults = "false" ] ] ]

(***************************************************************************)
(* State                                                                   *)
(***************************************************************************)
VARIABLES
    rooms,        \* RoomManager.rooms: roomCode -> game
    playerRooms,  \* RoomManager.playerRooms: playerId -> roomCode
    roomTimers,   \* the room codes that have an entry in RoomManager.roomTimers
    timers,       \* the pending timers of the event loop (a bag)
    out           \* what the last handler or callback sent, in order

vars == <<rooms, playerRooms, roomTimers, timers, out>>

\* A pending timer.  held: the room's roomTimers entry holds its handle.
\* elapsed: seconds since startServerTimer took startTime (round clock only).
Timer(kind, roomCode, remaining, held) ==
    [kind |-> kind, room |-> roomCode, remaining |-> remaining,
     elapsed |-> 0, held |-> held]

Pending == BagToSet(timers)

Min(a, b) == IF a <= b THEN a ELSE b

MapPut(f, k, v) == [x \in DOMAIN f \cup {k} |-> IF x = k THEN v ELSE f[x]]

MapDelete(f, ks) == [x \in DOMAIN f \ ks |-> f[x]]

\* The bag b without every copy of the timers in set s
BagWithout(b, s) == [t \in DOMAIN b \ s |-> b[t]]

\* The bag b with each timer replaced by its image under Op
BagMap(b, Op(_)) ==
    LET img == { Op(t) : t \in DOMAIN b }
    IN  [ u \in img |->
            LET pre == { t \in DOMAIN b : Op(t) = u }
                RECURSIVE Sum(_)
                Sum(S) == IF S = {} THEN 0
                          ELSE LET x == CHOOSE x \in S : TRUE
                               IN  b[x] + Sum(S \ {x})
            IN  Sum(pre) ]

(***************************************************************************)
(* Messages                                                                *)
(***************************************************************************)
\* callback({success, error}) to the socket that sent the event
Ack(playerId, success, error) ==
    [ev |-> "ack", to |-> playerId, success |-> success, error |-> error,
     info |-> 0]

\* io.to(roomCode).emit(ev, ...) and socket.to(roomCode).emit(ev, ...)
Emit(ev, roomCode, info) ==
    [ev |-> ev, to |-> roomCode, success |-> TRUE, error |-> "", info |-> info]

(***************************************************************************)
(* roomManager.js.  R is the registry: [rooms, playerRooms, roomTimers,    *)
(* timers]; each operation gives the registry it leaves behind.            *)
(***************************************************************************)
Reg == [rooms |-> rooms, playerRooms |-> playerRooms,
        roomTimers |-> roomTimers, timers |-> timers]

\* One run of the do-while loop: it drew `attempts` codes, the last one `code`.
\* Every draw but the last collided with a registered room; the last draw
\* ended the loop, being free or being draw number maxAttempts.
DrawPossible(R, attempts, code) ==
    /\ attempts \in 1..maxAttempts
    /\ attempts > 1 => DOMAIN R.rooms # {}
    /\ code \in DOMAIN R.rooms => attempts = maxAttempts

\* Variant: generateRoomCode that returns whatever the last draw was
generateRoomCodeNeverThrows(attempts) == FALSE

generateRoomCodeThrows(attempts) == attempts >= maxAttempts

AttemptSamples == {1, 2, maxAttempts}

\* Variant: createRoom without its test of the playerRooms entry
createRoomErrorUnmapped(R, playerId, attempts) ==
    IF generateRoomCodeThrows(attempts) THEN "Unable to generate unique room code"
    ELSE ""

createRoomError(R, playerId, attempts) ==
    IF playerId \in DOMAIN R.playerRooms THEN "Player already in room"
    ELSE IF generateRoomCodeThrows(attempts) THEN "Unable to generate unique room code"
    ELSE ""

createRoom(R, playerId, playerName, roomCode, puzzle) ==
    [ R EXCEPT
        !.rooms = MapPut(R.rooms, roomCode,
                         addPlayer(createGame(roomCode, puzzle), playerId, playerName)),
        !.playerRooms = MapPut(R.playerRooms, playerId, roomCode) ]

\* Variant: rejoinRoom without its test of game.players[playerId]
rejoinRoomErrorAnyPlayer(R, roomCode, playerId) ==
    IF roomCode \notin DOMAIN R.rooms THEN "Room not found" ELSE ""

\* Variant: rejoinRoom with one message for both refusals
rejoinRoomErrorOneMessage(R, roomCode, playerId) ==
    IF roomCode \notin DOMAIN R.rooms THEN "Room not found"
    ELSE IF playerId \notin PlayerIds(R.rooms[roomCode]) THEN "Room not found"
    ELSE ""

rejoinRoomError(R, roomCode, playerId) ==
    IF roomCode \notin DOMAIN R.rooms THEN "Room not found"
    ELSE IF playerId \notin PlayerIds(R.rooms[roomCode]) THEN "Player not found in room"
    ELSE ""

\* Variant: a reconnect that seats the player anew
rejoinRoomAsNew(R, roomCode, playerId, playerName) ==
    [ R EXCEPT !.rooms[roomCode] = addPlayer(@, playerId, playerName) ]

rejoinRoom(R, roomCode, playerId, playerName) ==
    [ R EXCEPT
        !.rooms[roomCode].players[playerId].connected = TRUE,
        !.rooms[roomCode].players[playerId].name =
            IF playerName # NoName THEN playerName ELSE @ ]

\* Variant: joinRoom without its test of the player count
joinRoomErrorUnbounded(R, roomCode, playerId) ==
    IF playerId \in DOMAIN R.playerRooms
    THEN IF R.playerRooms[playerId] = roomCode
         THEN rejoinRoomError(R, roomCode, playerId)
         ELSE "Player already in room"
    ELSE IF roomCode \notin DOMAIN R.rooms THEN "Room not found"
    ELSE ""

joinRoomError(R, roomCode, playerId) ==
    IF playerId \in DOMAIN R.playerRooms
    THEN IF R.playerRooms[playerId] = roomCode
         THEN rejoinRoomError(R, roomCode, playerId)
         ELSE "Player already in room"
    ELSE IF roomCode \notin DOMAIN R.rooms THEN "Room not found"
    ELSE IF PlayerCount(R.rooms[roomCode]) >= MAX_PLAYERS THEN "Room is full"
    ELSE IF addPlayerThrows(R.rooms[roomCode]) THEN "Game is full"
    ELSE ""

joinRoom(R, roomCode, playerId, playerName) ==
    IF playerId \in DOMAIN R.playerRooms
    THEN rejoinRoom(R, roomCode, playerId, playerName)
    ELSE [ R EXCEPT
             !.rooms[roomCode] = addPlayer(R.rooms[roomCode], playerId, playerName),
             !.playerRooms = MapPut(R.playerRooms, playerId, roomCode) ]

ConnectedPlayers(game) == { q \in PlayerIds(game) : game.players[q].connected }

clearCleanupTimer(R, roomCode) ==
    IF roomCode \notin R.roomTimers THEN R
    ELSE [ R EXCEPT !.timers = BagWithout(R.timers,
             { t \in DOMAIN R.timers :
                 t.room = roomCode /\ t.held /\ t.kind = "cleanup" }) ]

scheduleRoomCleanup(R, roomCode) ==
    LET C == clearCleanupTimer(R, roomCode)
    IN  [ C EXCEPT
            !.timers = C.timers (+) SetToBag({Timer("cleanup", roomCode,
                                                    CLEANUP_SECONDS, TRUE)}),
            !.roomTimers = C.roomTimers \cup {roomCode} ]

\* Variant: leaveRoom that keeps the playerRooms entry of the player
leaveRoomKeepsEntry(R, playerId) ==
    IF playerId \notin DOMAIN R.playerRooms THEN R
    ELSE LET roomCode == R.playerRooms[playerId]
         IN  IF roomCode \notin DOMAIN R.rooms THEN R
             ELSE LET game == R.rooms[roomCode]
                      left == IF playerId \in PlayerIds(game)
                              THEN [ game EXCEPT !.players[playerId].connected = FALSE ]
                              ELSE game
                      L == [ R EXCEPT !.rooms[roomCode] = left ]
                  IN  IF ConnectedPlayers(left) = {}
                      THEN scheduleRoomCleanup(L, roomCode)
                      ELSE L

\* leaveRoom returns null (nothing to announce) when the player has no room
leaveRoomReturnsNull(R, playerId) ==
    \/ playerId \notin DOMAIN R.playerRooms
    \/ R.playerRooms[playerId] \notin DOMAIN R.rooms

leaveRoom(R, playerId) ==
    IF playerId \notin DOMAIN R.playerRooms THEN R
    ELSE LET roomCode == R.playerRooms[playerId]
         IN  IF roomCode \notin DOMAIN R.rooms
             THEN [ R EXCEPT !.playerRooms = MapDelete(R.playerRooms, {playerId}) ]
             ELSE LET game == R.rooms[roomCode]
                      left == IF playerId \in PlayerIds(game)
                              THEN [ game EXCEPT !.players[playerId].connected = FALSE ]
                              ELSE game
                      L == [ R EXCEPT
                               !.rooms[roomCode] = left,
                               !.playerRooms = MapDelete(R.playerRooms, {playerId}) ]
                  IN  IF ConnectedPlayers(left) = {}
                      THEN scheduleRoomCleanup(L, roomCode)
                      ELSE L

\* Variant: clearRoundTimer that clears the round timers of every entry
clearRoundTimerAllRooms(R, roomCode) ==
    IF roomCode \notin R.roomTimers THEN R
    ELSE [ R EXCEPT !.timers = BagWithout(R.timers,
             { t \in DOMAIN R.timers :
                 t.held /\ t.kind \in {"interval", "countdown"} }) ]

clearRoundTimer(R, roomCode) ==
    IF roomCode \notin R.roomTimers THEN R
    ELSE [ R EXCEPT !.timers = BagWithout(R.timers,
             { t \in DOMAIN R.timers :
                 t.room = roomCode /\ t.held /\ t.kind \in {"interval", "countdown"} }) ]

\* Variant: startRoundWithTimer without its call of clearRoundTimer
startRoundWithTimerKeepsPending(R, roomCode) ==
    [ R EXCEPT
        !.timers = R.timers (+) SetToBag({Timer("countdown", roomCode,
                                                COUNTDOWN_DURATION, TRUE)}),
        !.roomTimers = R.roomTimers \cup {roomCode} ]

\* Variant: startRoundWithTimer that announces the countdown and schedules
\* nothing
startRoundWithTimerAnnouncesOnly(R, roomCode) == clearRoundTimer(R, roomCode)

\* The part of startRoundWithTimer that runs at once: cancel, announce the
\* countdown, schedule the round start.
startRoundWithTimer(R, roomCode) ==
    LET C == clearRoundTimer(R, roomCode)
    IN  [ C EXCEPT
            !.timers = C.timers (+) SetToBag({Timer("countdown", roomCode,
                                                    COUNTDOWN_DURATION, TRUE)}),
            !.roomTimers = C.roomTimers \cup {roomCode} ]

CountdownStarted(R, roomCode) ==
    Emit("countdown-started", roomCode, R.rooms[roomCode].currentRound + 1)

\* timers.timerInterval = timerInterval: an interval the entry held before
\* stays pending but is no longer held.
startServerTimer(R, roomCode) ==
    IF roomCode \notin DOMAIN R.rooms \/ R.rooms[roomCode].roundStatus # "active"
    THEN R
    ELSE LET Drop(t) == IF t.room = roomCode /\ t.kind = "interval"
                        THEN [t EXCEPT !.held = FALSE] ELSE t
         IN  [ R EXCEPT
                 !.timers = BagMap(R.timers, Drop)
                            (+) SetToBag({Timer("interval", roomCode,
                                                INTERVAL_SECONDS, TRUE)}),
                 !.roomTimers = R.roomTimers \cup {roomCode} ]

\* Variant: a forced end that waits longer than the countdown lasts
endRoundByTimerLongGrace(R, roomCode) ==
    IF ~(roomCode \in DOMAIN R.rooms /\ R.rooms[roomCode].roundStatus = "active")
    THEN R
    ELSE [ R EXCEPT
             !.timers = R.timers (+) SetToBag({Timer("grace", roomCode,
                                                     COUNTDOWN_DURATION + GRACE_SECONDS,
                                                     FALSE)}) ]

\* endRoundByTimer: announce the expiry and schedule the forced end
endRoundByTimerActs(R, roomCode) ==
    roomCode \in DOMAIN R.rooms /\ R.rooms[roomCode].roundStatus = "active"

\* Variant: the expiry is announced but no forced end is scheduled
endRoundByTimerNoForce(R, roomCode) == R

endRoundByTimer(R, roomCode) ==
    IF ~endRoundByTimerActs(R, roomCode) THEN R
    ELSE [ R EXCEPT
             !.timers = R.timers (+) SetToBag({Timer("grace", roomCode,
                                                     GRACE_SECONDS, FALSE)}) ]

\* Variant: the cleanup callback without its test for connected players
cleanupRoomUnchecked(R, roomCode) ==
    IF roomCode \notin DOMAIN R.rooms THEN R
    ELSE LET Drop(t) == IF t.room = roomCode THEN [t EXCEPT !.held = FALSE] ELSE t
         IN  [ rooms       |-> MapDelete(R.rooms, {roomCode}),
               roomTimers  |-> R.roomTimers \ {roomCode},
               timers      |-> BagMap(R.timers, Drop),
               playerRooms |-> MapDelete(R.playerRooms,
                                         PlayerIds(R.rooms[roomCode])) ]

cleanupRoomDestroys(R, roomCode) ==
    roomCode \in DOMAIN R.rooms /\ ConnectedPlayers(R.rooms[roomCode]) = {}

cleanupRoom(R, roomCode) ==
    IF roomCode \notin DOMAIN R.rooms THEN R
    ELSE IF ConnectedPlayers(R.rooms[roomCode]) # {}
    THEN clearCleanupTimer(R, roomCode)
    ELSE LET Drop(t) == IF t.room = roomCode THEN [t EXCEPT !.held = FALSE] ELSE t
         IN  [ rooms       |-> MapDelete(R.rooms, {roomCode}),
               roomTimers  |-> R.roomTimers \ {roomCode},
               timers      |-> BagMap(R.timers, Drop),
               playerRooms |-> MapDelete(R.playerRooms,
                                         PlayerIds(R.rooms[roomCode])) ]

\* cleanup(): clear the handles every roomTimers entry holds, then empty
\* roomTimers
cleanup(R) ==
    [ R EXCEPT
        !.timers = BagWithout(R.timers,
            { t \in DOMAIN R.timers :
                /\ t.room \in R.roomTimers
                /\ t.held
                /\ t.kind \in {"interval", "countdown", "cleanup"} }),
        !.roomTimers = {} ]

(***************************************************************************)
(* socketHandlers.js: one action per inbound event                         *)
(***************************************************************************)
\* Of what a handler or callback sends, out keeps the round and game
\* lifecycle broadcasts and the refusals; roster notices (player-joined,
\* player-ready-status, player-disconnected, player-reconnected) and positive
\* acknowledgements are sent as well but not kept.
Lifecycle ==
    { "countdown-started", "round-started", "timer-update", "round-time-expired",
      "round-ended", "game-finished", "game-restarted" }

Kept(m) == m.ev \in Lifecycle \/ (m.ev = "ack" /\ ~m.success)

Apply(R, msgs) ==
    /\ rooms' = R.rooms
    /\ playerRooms' = R.playerRooms
    /\ roomTimers' = R.roomTimers
    /\ timers' = R.timers
    /\ out' = SelectSeq(msgs, Kept)

\* socket.on('create-room')
CreateRoomEvent(playerId, playerName, attempts, roomCode, puzzle) ==
    /\ DrawPossible(Reg, attempts, roomCode)
    /\ LET error == createRoomError(Reg, playerId, attempts)
       IN  IF error # ""
           THEN Apply(Reg, <<Ack(playerId, FALSE, error)>>)
           ELSE Apply(createRoom(Reg, playerId, playerName, roomCode, puzzle),
                      <<Ack(playerId, TRUE, ""),
                        Emit("player-joined", roomCode, 1)>>)

\* socket.on('join-room')
JoinRoomEvent(playerId, roomCode, playerName) ==
    LET error == joinRoomError(Reg, roomCode, playerId)
    IN  IF error # ""
        THEN Apply(Reg, <<Ack(playerId, FALSE, error)>>)
        ELSE LET J == joinRoom(Reg, roomCode, playerId, playerName)
             IN  Apply(J, <<Ack(playerId, TRUE, ""),
                            Emit("player-joined", roomCode,
                                 PlayerCount(J.rooms[roomCode]))>>)

\* The transitions the player-ready handler checks after setPlayerReady
ReadyTransition(R, roomCode, canStartNext, puzzle) ==
    LET game == R.rooms[roomCode]
    IN  IF canRestartGame(game)
        THEN LET T == [ R EXCEPT !.rooms[roomCode] = restartGame(game, puzzle) ]
             IN  [ reg  |-> startRoundWithTimer(T, roomCode),
                   msgs |-> <<Emit("game-restarted", roomCode, 0),
                              CountdownStarted(T, roomCode)>> ]
        ELSE IF canStartGame(game) \/ canStartNext
        THEN [ reg  |-> startRoundWithTimer(R, roomCode),
               msgs |-> <<CountdownStarted(R, roomCode)>> ]
        ELSE [ reg |-> R, msgs |-> << >> ]

playerReadyError(R, playerId) ==
    IF playerId \notin DOMAIN R.playerRooms THEN "Player not in any room"
    ELSE IF R.playerRooms[playerId] \notin DOMAIN R.rooms THEN "TypeError"
    ELSE IF setPlayerReadyThrows(R.rooms[R.playerRooms[playerId]], playerId)
    THEN "Player not found"
    ELSE ""

\* socket.on('player-ready')
PlayerReadyEvent(playerId, ready, puzzle) ==
    LET error == playerReadyError(Reg, playerId)
    IN  IF error # ""
        THEN Apply(Reg, <<Ack(playerId, FALSE, error)>>)
        ELSE LET roomCode == playerRooms[playerId]
                 game == setPlayerReady(rooms[roomCode], playerId, ready)
                 canStartNext == canStartNextRound(game)
                 S == [ Reg EXCEPT !.rooms[roomCode] = game ]
                 T == ReadyTransition(S, roomCode, canStartNext, puzzle)
             IN  Apply(T.reg,
                       <<Emit("player-ready-status", roomCode,
                              IF ready THEN 1 ELSE 0)>>
                       \o T.msgs \o <<Ack(playerId, TRUE, "")>>)

submitError(R, playerId) ==
    IF playerId \notin DOMAIN R.playerRooms THEN "Player not in any room"
    ELSE IF R.playerRooms[playerId] \notin DOMAIN R.rooms THEN "TypeError"
    ELSE IF processRoundResultsThrows(R.rooms[R.playerRooms[playerId]], playerId)
    THEN "Player not found"
    ELSE ""

\* playersWithResults.length === totalPlayers && game.roundStatus === 'active'
AllSubmitted(game) ==
    /\ Cardinality({ q \in PlayerIds(game) :
                       game.players[q].hasSubmittedResults = "true" })
         = PlayerCount(game)
    /\ game.roundStatus = "active"

\* socket.on('submit-round-results')
SubmitRoundResultsEvent(playerId, results) ==
    LET error == submitError(Reg, playerId)
    IN  IF error # ""
        THEN Apply(Reg, <<Ack(playerId, FALSE, error)>>)
        ELSE LET roomCode == playerRooms[playerId]
                 game == processRoundResults(rooms[roomCode], playerId, results)
                 S == [ Reg EXCEPT !.rooms[roomCode] = game ]
             IN  IF AllSubmitted(game)
                 THEN Apply(clearRoundTimer(
                              [ S EXCEPT !.rooms[roomCode] = endRound(game) ],
                              roomCode),
                            <<Ack(playerId, TRUE, ""),
                              Emit("round-ended", roomCode,
                                   endRoundResult(game).round)>>)
                 ELSE Apply(S, <<Ack(playerId, TRUE, "")>>)

\* socket.on('disconnect')
DisconnectEvent(playerId) ==
    IF leaveRoomReturnsNull(Reg, playerId)
    THEN Apply(leaveRoom(Reg, playerId), << >>)
    ELSE LET L == leaveRoom(Reg, playerId)
             roomCode == playerRooms[playerId]
         IN  Apply(L, <<Emit("player-disconnected", roomCode,
                             Cardinality(ConnectedPlayers(L.rooms[roomCode])))>>)

\* socket.on('reconnect-to-room')
ReconnectToRoomEvent(playerId, roomCode, playerName) ==
    LET error == rejoinRoomError(Reg, roomCode, playerId)
    IN  IF error # ""
        THEN Apply(Reg, <<Ack(playerId, FALSE, error)>>)
        ELSE Apply(rejoinRoom(Reg, roomCode, playerId, playerName),
                   <<Ack(playerId, TRUE, ""),
                     Emit("player-reconnected", roomCode, 0)>>)

(***************************************************************************)
(* Timer callbacks and the passing of time                                 *)
(***************************************************************************)
Due(t) == t \in Pending /\ t.remaining = 0

\* The registry once timer t has left the pending timers
Fired(t) == [ Reg EXCEPT !.timers = timers (-) SetToBag({t}) ]

\* The setTimeout callback of startRoundWithTimer.  Its closure holds the
\* game object: when the room is registered that object is the registered
\* game; orphanStarts is the case of a room removed since, in which the
\* callback starts the round of the game it holds.
CountdownFire(t, puzzle, orphanStarts) ==
    /\ Due(t) /\ t.kind = "countdown"
    /\ IF t.room \in DOMAIN rooms
       THEN IF startRoundThrows(rooms[t.room])
            THEN Apply(Fired(t), << >>)
            ELSE LET S == [ Fired(t) EXCEPT
                              !.rooms[t.room] = startRound(rooms[t.room], puzzle) ]
                 IN  Apply(startServerTimer(S, t.room),
                           <<Emit("round-started", t.room,
                                  S.rooms[t.room].currentRound)>>)
       ELSE Apply(Fired(t),
                  IF orphanStarts THEN <<Emit("round-started", t.room, 0)>>
                  ELSE << >>)

timeRemainingOf(t) ==
    IF ROUND_DURATION - t.elapsed > 0 THEN ROUND_DURATION - t.elapsed ELSE 0

\* Variant: the round clock is not cleared when the time has expired
IntervalFireKeepsClock(t) ==
    /\ Due(t) /\ t.kind = "interval"
    /\ IF t.room \notin DOMAIN rooms \/ rooms[t.room].roundStatus # "active"
       THEN Apply(Fired(t), << >>)
       ELSE LET again == [ Reg EXCEPT !.timers = (timers (-) SetToBag({t})) (+)
                             SetToBag({[t EXCEPT !.remaining = INTERVAL_SECONDS]}) ]
            IN  IF timeRemainingOf(t) <= 0
                THEN Apply(endRoundByTimer(again, t.room),
                           <<Emit("timer-update", t.room, timeRemainingOf(t)),
                             Emit("round-time-expired", t.room, 0)>>)
                ELSE Apply(again,
                           <<Emit("timer-update", t.room, timeRemainingOf(t))>>)

\* The setInterval callback of startServerTimer
IntervalFire(t) ==
    /\ Due(t) /\ t.kind = "interval"
    /\ IF t.room \notin DOMAIN rooms \/ rooms[t.room].roundStatus # "active"
       THEN Apply(Fired(t), << >>)
       ELSE IF timeRemainingOf(t) <= 0
       THEN Apply(endRoundByTimer(Fired(t), t.room),
                  <<Emit("timer-update", t.room, timeRemainingOf(t)),
                    Emit("round-time-expired", t.room, 0)>>)
       ELSE Apply([ Reg EXCEPT !.timers = (timers (-) SetToBag({t})) (+)
                      SetToBag({[t EXCEPT !.remaining = INTERVAL_SECONDS]}) ],
                  <<Emit("timer-update", t.room, timeRemainingOf(t))>>)

\* Variant: the forced end without its test of roundStatus
GraceFireUnchecked(t) ==
    /\ Due(t) /\ t.kind = "grace"
    /\ IF t.room \in DOMAIN rooms
       THEN LET game == rooms[t.room]
                E == [ Fired(t) EXCEPT !.rooms[t.room] = endRound(game) ]
            IN  Apply(clearRoundTimer(E, t.room),
                      <<Emit(IF E.rooms[t.room].gameStatus = "finished"
                             THEN "game-finished" ELSE "round-ended",
                             t.room, endRoundResult(game).round)>>)
       ELSE Apply(Fired(t), << >>)

\* Variant: the forced end announces the round's end whatever it finds
GraceFireAnnounces(t) ==
    /\ Due(t) /\ t.kind = "grace"
    /\ IF t.room \in DOMAIN rooms /\ rooms[t.room].roundStatus = "active"
       THEN LET game == rooms[t.room]
                E == [ Fired(t) EXCEPT !.rooms[t.room] = endRound(game) ]
            IN  Apply(clearRoundTimer(E, t.room),
                      <<Emit(IF E.rooms[t.room].gameStatus = "finished"
                             THEN "game-finished" ELSE "round-ended",
                             t.room, endRoundResult(game).round)>>)
       ELSE Apply(Fired(t), <<Emit("round-ended", t.room, 0)>>)

\* The setTimeout callback of endRoundByTimer
GraceFire(t) ==
    /\ Due(t) /\ t.kind = "grace"
    /\ IF t.room \in DOMAIN rooms /\ rooms[t.room].roundStatus = "active"
       THEN LET game == rooms[t.room]
                E == [ Fired(t) EXCEPT !.rooms[t.room] = endRound(game) ]
            IN  Apply(clearRoundTimer(E, t.room),
                      <<Emit(IF E.rooms[t.room].gameStatus = "finished"
                             THEN "game-finished" ELSE "round-ended",
                             t.room, endRoundResult(game).round)>>)
       ELSE Apply(Fired(t), << >>)

\* The setTimeout callback of scheduleRoomCleanup
CleanupFire(t) ==
    /\ Due(t) /\ t.kind = "cleanup"
    /\ Apply(cleanupRoom(Fired(t), t.room), << >>)

\* SIGINT or SIGTERM: shutdown() calls roomManager.cleanup(); server.close
\* then waits for the connections to end, the event loop running on.
Shutdown ==
    Apply(cleanup(Reg), << >>)

\* Seconds until something can next happen on timer t: a timeout's delay;
\* for a round clock the stride, cut at the second the round expires.
Wait(t) ==
    IF t.kind # "interval" THEN t.remaining
    ELSE IF t.elapsed < ROUND_DURATION
         THEN Min(TickStride, ROUND_DURATION - t.elapsed)
         ELSE INTERVAL_SECONDS

NextDeadline == 
    CHOOSE d \in { Wait(t) : t \in Pending } :
        \A t \in Pending : d <= Wait(t)

Advance(t, d) ==
    IF t.kind = "interval"
    THEN [ t EXCEPT !.remaining = 0, !.elapsed = t.elapsed + d ]
    ELSE [ t EXCEPT !.remaining = t.remaining - d ]

\* Time passes until the next deadline; a due timer runs before more passes.
Tick ==
    /\ Pending # {}
    /\ \A t \in Pending : t.remaining > 0
    /\ LET d == NextDeadline
           Adv(t) == Advance(t, d)
       IN  Apply([ Reg EXCEPT !.timers = BagMap(timers, Adv) ], << >>)

(***************************************************************************)
(* The system                                                              *)
(***************************************************************************)
Init ==
    /\ rooms = << >>
    /\ playerRooms = << >>
    /\ roomTimers = {}
    /\ timers = EmptyBag
    /\ out = << >>

\* Two sockets and one room.  The environment sends the events the server
\* accepts; a socket that left a room does not send join-room for that room
\* again (NextRejoin covers that).
Next ==
    \/ \E p \in Ids, c \in Codes, z \in Puzzles :
         /\ createRoomError(Reg, p, 1) = ""
         /\ CreateRoomEvent(p, NameOf(p), 1, c, z)
    \/ \E p \in Ids, c \in Codes :
         /\ joinRoomError(Reg, c, p) = ""
         /\ p \notin PlayerIds(rooms[c])
         /\ JoinRoomEvent(p, c, NameOf(p))
    \/ \E p \in Ids, r \in BOOLEAN, z \in Puzzles :
         /\ playerReadyError(Reg, p) = ""
         /\ PlayerReadyEvent(p, r, z)
    \/ \E p \in Ids : \E s \in SubmissionsOf(p) :
         /\ submitError(Reg, p) = ""
         /\ SubmitRoundResultsEvent(p, s)
    \/ \E p \in Ids :
         /\ p \in DOMAIN playerRooms
         /\ DisconnectEvent(p)
    \/ \E p \in Ids, c \in Codes :
         /\ rejoinRoomError(Reg, c, p) = ""
         /\ ReconnectToRoomEvent(p, c, NameOf(p))
    \/ \E t \in Pending, z \in Puzzles : CountdownFire(t, z, FALSE)
    \/ \E t \in Pending : IntervalFire(t)
    \/ \E t \in Pending : GraceFire(t)
    \/ \E t \in Pending : CleanupFire(t)
    \/ Tick

Spec == Init /\ [][Next]_vars

\* The first socket opens the room and stays; the second may leave and then
\* send join-room or reconnect-to-room for the room it left.  No cleanup is
\* ever scheduled, a player being connected throughout.
NextRejoin ==
    \/ \E c \in Codes, z \in Puzzles :
         /\ createRoomError(Reg, 1, 1) = ""
         /\ CreateRoomEvent(1, NameOf(1), 1, c, z)
    \/ \E p \in Ids, c \in Codes :
         /\ joinRoomError(Reg, c, p) = ""
         /\ JoinRoomEvent(p, c, NameOf(p))
    \/ \E p \in Ids, r \in BOOLEAN, z \in Puzzles :
         /\ playerReadyError(Reg, p) = ""
         /\ PlayerReadyEvent(p, r, z)
    \/ \E p \in Ids : \E s \in SubmissionsOf(p) :
         /\ submitError(Reg, p) = ""
         /\ SubmitRoundResultsEvent(p, s)
    \/ /\ 2 \in DOMAIN playerRooms
       /\ DisconnectEvent(2)
    \/ \E c \in Codes :
         /\ rejoinRoomError(Reg, c, 2) = ""
         /\ ReconnectToRoomEvent(2, c, NameOf(2))
    \/ \E t \in Pending, z \in Puzzles : CountdownFire(t, z, FALSE)
    \/ \E t \in Pending : IntervalFire(t)
    \/ \E t \in Pending : GraceFire(t)
    \/ Tick

SpecRejoin == Init /\ [][NextRejoin]_vars

\* The lobby: one more socket than a room can hold.  New sockets arrive in
\* the order of their ids; every join-room is sent, the refused ones too;
\* sockets leave and come back, and an abandoned room is cleaned up.
LobbySockets == 1..LobbyIds

NextLobby ==
    \/ \E c \in Codes, z \in Puzzles :
         /\ createRoomError(Reg, 1, 1) = ""
         /\ CreateRoomEvent(1, NameOf(1), 1, c, z)
    \/ \E p \in LobbySockets, c \in Codes :
         /\ c \in DOMAIN rooms
         /\ \A q \in 1..(p - 1) : q \in PlayerIds(rooms[c])
         /\ JoinRoomEvent(p, c, NameOf(p))
    \/ \E p \in LobbySockets :
         /\ p \in DOMAIN playerRooms
         /\ DisconnectEvent(p)
    \/ \E t \in Pending : CleanupFire(t)
    \/ Tick

SpecLobby == Init /\ [][NextLobby]_vars

\* The event loop runs every callback that is due, and time does not stop.
TimersFire ==
    /\ WF_vars(Tick)
    /\ WF_vars(\E t \in Pending, z \in Puzzles : CountdownFire(t, z, FALSE))
    /\ WF_vars(\E t \in Pending : IntervalFire(t))
    /\ WF_vars(\E t \in Pending : GraceFire(t))

SpecLive == Init /\ [][NextRejoin]_vars /\ TimersFire

\* The sockets send what they like: besides the events of Next, a
\* reconnect-to-room the server refuses, and the disconnect of a socket that
\* has no playerRooms entry.
NextAnyEvent ==
    \/ Next
    \/ \E p \in Ids, c \in Codes :
         /\ rejoinRoomError(Reg, c, p) # ""
         /\ ReconnectToRoomEvent(p, c, NameOf(p))
    \/ \E p \in Ids :
         /\ p \notin DOMAIN playerRooms
         /\ DisconnectEvent(p)

SpecAnyEvent == Init /\ [][NextAnyEvent]_vars

\* The registry alone: two sockets and two room codes.  create-room and
\* join-room are sent at any time, the refused ones too, with any run of the
\* code-drawing loop; sockets leave, and abandoned rooms are cleaned up.
RegistryCodes == {"1000", "2000"}

NextRegistry ==
    \/ \E p \in Ids, a \in AttemptSamples, c \in RegistryCodes, z \in Puzzles :
         CreateRoomEvent(p, NameOf(p), a, c, z)
    \/ \E p \in Ids, c \in RegistryCodes :
         JoinRoomEvent(p, c, NameOf(p))
    \/ \E p \in Ids :
         /\ p \in DOMAIN playerRooms
         /\ DisconnectEvent(p)
    \/ \E t \in Pending : CleanupFire(t)
    \/ Tick

SpecRegistry == Init /\ [][NextRegistry]_vars

\* Every event at any time: besides the events of NextRejoin, the
\* create-room, join-room, reconnect-to-room, player-ready and
\* submit-round-results the server refuses.  join-room also names a room
\* code no room was opened with.
NextRefusals ==
    \/ NextRejoin
    \/ \E p \in Ids, c \in Codes :
         /\ rejoinRoomError(Reg, c, p) # ""
         /\ ReconnectToRoomEvent(p, c, NameOf(p))
    \/ \E p \in Ids, a \in AttemptSamples, c \in Codes, z \in Puzzles :
         /\ createRoomError(Reg, p, a) # ""
         /\ CreateRoomEvent(p, NameOf(p), a, c, z)
    \/ \E p \in Ids, c \in RegistryCodes :
         /\ joinRoomError(Reg, c, p) # ""
         /\ JoinRoomEvent(p, c, NameOf(p))
    \/ \E p \in Ids, r \in BOOLEAN, z \in Puzzles :
         /\ playerReadyError(Reg, p) # ""
         /\ PlayerReadyEvent(p, r, z)
    \/ \E p \in Ids : \E s \in SubmissionsOf(p) :
         /\ submitError(Reg, p) # ""
         /\ SubmitRoundResultsEvent(p, s)

SpecRefusals == Init /\ [][NextRefusals]_vars

\* The process is told to shut down at any time; until its connections have
\* ended the sockets go on sending and the callbacks left pending run.
NextShutdown ==
    \/ NextRejoin
    \/ Shutdown

SpecShutdown == Init /\ [][NextShutdown]_vars

\* Two rooms side by side: sockets 1 and 2 play in room "1000", sockets 3
\* and 4 in room "2000", at the same time.  The players stay connected, send
\* ready = true, and send a result list without words; those of room "1000"
\* play two rounds, those of room "2000" one.
TwoRoomIds == {1, 2, 3, 4}

RoomOf(p) == IF p \in {1, 2} THEN "1000" ELSE "2000"

\* The rounds the players of a room go on to play
RoundsPlayed(c) == IF c = "1000" THEN FirstRoomRounds ELSE SecondRoomRounds

NextTwoRooms ==
    \/ \E p \in {1, 3}, z \in Puzzles :
         /\ createRoomError(Reg, p, 1) = ""
         /\ CreateRoomEvent(p, NameOf(p), 1, RoomOf(p), z)
    \/ \E p \in {2, 4} :
         /\ joinRoomError(Reg, RoomOf(p), p) = ""
         /\ p \notin PlayerIds(rooms[RoomOf(p)])
         /\ JoinRoomEvent(p, RoomOf(p), NameOf(p))
    \/ \E p \in TwoRoomIds, z \in Puzzles :
         /\ playerReadyError(Reg, p) = ""
         /\ rooms[RoomOf(p)].currentRound < RoundsPlayed(RoomOf(p))
         /\ PlayerReadyEvent(p, TRUE, z)
    \/ \E p \in TwoRoomIds :
         /\ submitError(Reg, p) = ""
         /\ SubmitRoundResultsEvent(p, [words |-> <<>>, totalScore |-> 0])
    \/ \E t \in Pending, z \in Puzzles : CountdownFire(t, z, FALSE)
    \/ \E t \in Pending : IntervalFire(t)
    \/ \E t \in Pending : GraceFire(t)
    \/ Tick

SpecTwoRooms == Init /\ [][NextTwoRooms]_vars

(***************************************************************************)
(* gameLogic.js called directly: the functions of the module applied, in   *)
(* any order, to the one game object kept in rooms; out is what the call   *)
(* just made threw, or what endRound returned.                             *)
(***************************************************************************)
LogicIds == {1, 2}

LogicSubmissions ==
    { [words |-> <<Word("apple", 30, FALSE)>>, totalScore |-> 30],
      [words |-> <<Word("banana", 40, FALSE)>>, totalScore |-> 40] }

Returned(op, value) ==
    [ev |-> op, to |-> 0, success |-> TRUE, error |-> "", info |-> value]

Threw(op, error) ==
    [ev |-> op, to |-> 0, success |-> FALSE, error |-> error, info |-> 0]

Call(games, results) ==
    /\ rooms' = games
    /\ out' = results
    /\ UNCHANGED <<playerRooms, roomTimers, timers>>

\* createGame and the addPlayer of the creator, as createRoom calls them
LogicCreateGame(roomCode, puzzle, playerId, playerName) ==
    /\ roomCode \notin DOMAIN rooms
    /\ Call(MapPut(rooms, roomCode,
                   addPlayer(createGame(roomCode, puzzle), playerId, playerName)),
            << >>)

LogicAddPlayer(roomCode, playerId, playerName) ==
    /\ roomCode \in DOMAIN rooms
    /\ IF addPlayerThrows(rooms[roomCode])
       THEN Call(rooms, <<Threw("addPlayer", "Game is full")>>)
       ELSE Call([rooms EXCEPT ![roomCode] = addPlayer(@, playerId, playerName)],
                 << >>)

LogicStartRound(roomCode, puzzle) ==
    /\ roomCode \in DOMAIN rooms
    /\ IF startRoundThrows(rooms[roomCode])
       THEN Call(rooms, <<Threw("startRound", "All rounds completed")>>)
       ELSE Call([rooms EXCEPT ![roomCode] = startRound(@, puzzle)],
                 << >>)

LogicProcessRoundResults(roomCode, playerId, results) ==
    /\ roomCode \in DOMAIN rooms
    /\ IF processRoundResultsThrows(rooms[roomCode], playerId)
       THEN Call(rooms, <<Threw("processRoundResults", "Player not found")>>)
       ELSE Call([rooms EXCEPT ![roomCode] =
                    processRoundResults(@, playerId, results)],
                 << >>)

LogicEndRound(roomCode) ==
    /\ roomCode \in DOMAIN rooms
    /\ Call([rooms EXCEPT ![roomCode] = endRound(@)],
            <<Returned("endRound", endRoundResult(rooms[roomCode]))>>)

LogicRestartGame(roomCode, puzzle) ==
    /\ roomCode \in DOMAIN rooms
    /\ IF restartGameThrows(rooms[roomCode])
       THEN Call(rooms, <<Threw("restartGame", "Can only restart a finished game")>>)
       ELSE Call([rooms EXCEPT ![roomCode] = restartGame(@, puzzle)],
                 << >>)

\* player.connected = false, as leaveRoom writes it into the game object
LogicMarkDisconnected(roomCode, playerId) ==
    /\ roomCode \in DOMAIN rooms
    /\ playerId \in PlayerIds(rooms[roomCode])
    /\ Call([rooms EXCEPT ![roomCode].players[playerId].connected = FALSE],
            << >>)

\* The callers of the harness seat the players first, in the order of their
\* ids, and start a round only when none is running; the second player
\* may be marked disconnected in a finished game; everything else is called at any
\* time.
NextLogic ==
    \/ \E c \in Codes, z \in Puzzles : LogicCreateGame(c, z, 1, NameOf(1))
    \/ \E c \in Codes, p \in LogicIds :
         /\ c \in DOMAIN rooms
         /\ rooms[c].currentRound = 0 /\ rooms[c].roundResults = << >>
         /\ PlayerIds(rooms[c]) = { q \in LogicIds : q < p }
         /\ LogicAddPlayer(c, p, NameOf(p))
    \/ \E c \in Codes, z \in Puzzles :
         /\ c \in DOMAIN rooms
         /\ rooms[c].roundStatus # "active"
         /\ LogicStartRound(c, z)
    \/ \E c \in Codes, p \in LogicIds, s \in LogicSubmissions :
         LogicProcessRoundResults(c, p, s)
    \/ \E c \in Codes : LogicEndRound(c)
    \/ \E c \in Codes, z \in Puzzles : LogicRestartGame(c, z)
    \/ \E c \in Codes :
         /\ c \in DOMAIN rooms
         /\ rooms[c].gameStatus = "finished"
         /\ LogicMarkDisconnected(c, 2)

SpecLogic == Init /\ [][NextLogic]_vars

\* The server of SpecRejoin, and restartGame called directly as well on a
\* game that has not finished, which the player-ready handler never does.
NextRestart ==
    \/ NextRejoin
    \/ \E c \in Codes, z \in Puzzles :
         /\ c \in DOMAIN rooms
         /\ rooms[c].gameStatus # "finished"
         /\ LogicRestartGame(c, z)

SpecRestart == Init /\ [][NextRestart]_vars

(***************************************************************************)
(* processRoundResults called directly, with any result list a client can  *)
(* send, on the game of two players in and around its first round; the     *)
(* third id is never seated.                                               *)
(***************************************************************************)
SubmitIds == {1, 2, 3}

\* Result lists as clients send them: none, one word in capitals, two words
\* one of them a pangram, and a word the puzzle would not allow with points
\* and a total that do not add up
SubmitSamples ==
    { [words |-> <<>>, totalScore |-> 0],
      [words |-> <<Word("ACNE", 16, FALSE)>>, totalScore |-> 16],
      [words |-> <<Word("Allowance", 106, TRUE), Word("apple", 25, FALSE)>>,
       totalScore |-> 131],
      [words |-> <<Word("bee", 99, FALSE)>>, totalScore |-> 7] }

NextSubmit ==
    \/ \E c \in Codes, z \in Puzzles : LogicCreateGame(c, z, 1, NameOf(1))
    \/ \E c \in Codes :
         /\ c \in DOMAIN rooms
         /\ PlayerIds(rooms[c]) = {1}
         /\ LogicAddPlayer(c, 2, NameOf(2))
    \/ \E c \in Codes, z \in Puzzles :
         /\ c \in DOMAIN rooms
         /\ rooms[c].currentRound = 0
         /\ LogicStartRound(c, z)
    \/ \E c \in Codes, p \in SubmitIds, s \in SubmitSamples :
         LogicProcessRoundResults(c, p, s)
    \/ \E c \in Codes :
         /\ c \in DOMAIN rooms
         /\ rooms[c].roundStatus = "active"
         /\ LogicEndRound(c)

SpecSubmit == Init /\ [][NextSubmit]_vars

(***************************************************************************)
(* Scoring called directly: calculateTotalPoints applied to a word, and    *)
(* getRandomPuzzle pre-calculating the points of the answers of a puzzle   *)
(* file (wordData.js carries its own copy of the two scoring functions,    *)
(* with the literal 4 for MIN_WORD_LENGTH).  out is what the call returned.*)
(***************************************************************************)
ScoringWords ==
    { "bee", "acne", "ACNE", "apple", "banana", "letters", "allowance",
      "Allowance" }

\* Most answers of a puzzle file, and most pangrams among them
MaxAnswers == 3

MaxPangrams == 1

\* const wordPoints = {}; puzzle.answers.forEach(...)
wordPointsOf(answers, pangrams) ==
    LET lower == { ToLowerCase(w) : w \in pangrams }
    IN  [ k \in { ToLowerCase(w) : w \in answers } |->
            calculateTotalPoints(CHOOSE w \in answers : ToLowerCase(w) = k,
                                 k \in lower) ]

ScoringCalculateTotalPoints(word, isPangram) ==
    /\ out' = <<Returned("calculateTotalPoints",
                         [word |-> word, isPangram |-> isPangram,
                          points |-> calculateTotalPoints(word, isPangram)])>>
    /\ UNCHANGED <<rooms, playerRooms, roomTimers, timers>>

ScoringGetRandomPuzzle(answers, pangrams) ==
    /\ answers # {}
    /\ out' = <<Returned("getRandomPuzzle",
                         [validWords |-> { ToLowerCase(w) : w \in answers },
                          pangrams |-> { ToLowerCase(w) : w \in pangrams },
                          wordPoints |-> wordPointsOf(answers, pangrams)])>>
    /\ UNCHANGED <<rooms, playerRooms, roomTimers, timers>>

NextScoring ==
    \/ \E w \in ScoringWords, b \in BOOLEAN : ScoringCalculateTotalPoints(w, b)
    \/ \E A \in SUBSET ScoringWords :
         /\ Cardinality(A) <= MaxAnswers
         /\ \E P \in SUBSET A :
              /\ Cardinality(P) <= MaxPangrams
              /\ ScoringGetRandomPuzzle(A, P)

SpecScoring == Init /\ [][NextScoring]_vars

(***************************************************************************)
(* Properties                                                              *)
(***************************************************************************)
Null == [isNull |-> TRUE]

Last(seq) == seq[Len(seq)]

RECURSIVE SumRoundScores(_, _, _)
SumRoundScores(results, playerId, i) ==
    IF i > Len(results) THEN 0
    ELSE (IF playerId \in DOMAIN results[i].players
          THEN results[i].players[playerId].roundScore ELSE 0)
         + SumRoundScores(results, playerId, i + 1)

RoundScoresOf(game, playerId) ==
    [ i \in 1..Len(game.roundResults) |->
        game.roundResults[i].players[playerId].roundScore ]

\* C1: endRound is idempotent.  Called on a game whose round is active it
\* appends exactly one entry to roundResults, adds every player's roundScore
\* into totalScore once and returns the appended entry; called again right
\* after, it changes no field of the game and returns the same RoundResult.
C1_EndRoundIdempotent ==
    [][ \A c \in Codes :
          (c \in DOMAIN rooms /\ LogicEndRound(c)) =>
            LET g == rooms[c]
                h == rooms'[c]
            IN  /\ g.roundStatus = "active" =>
                     /\ h.roundResults = Append(g.roundResults, Last(h.roundResults))
                     /\ \A q \in PlayerIds(g) :
                          h.players[q].totalScore
                            = g.players[q].totalScore + g.players[q].roundScore
                     /\ out'[1].info = Last(h.roundResults)
                     /\ endRound(h) = h
                     /\ endRoundResult(h) = out'[1].info
                /\ (g.roundStatus = "ended" /\ out # << >> /\ out[1].ev = "endRound") =>
                     /\ h = g
                     /\ out' = out ]_vars

\* C1 witness: endRound has just closed an active round in which a player
\* scored, so that a second addition would show.
C1_Witness ==
    \E c \in DOMAIN rooms :
        /\ out # << >> /\ out[1].ev = "endRound"
        /\ rooms[c].roundStatus = "ended"
        /\ rooms[c].currentRound = 2
        /\ out[1].info.round = 2
        /\ \E q \in PlayerIds(rooms[c]) :
             /\ rooms[c].players[q].roundScore = 40
             /\ rooms[c].players[q].totalScore = 70

\* C7: startRound on a game with currentRound = totalRounds throws
\* 'All rounds completed' and leaves the game unchanged, and currentRound
\* stays within 0..totalRounds (3) in every reachable state.
C7_StartRoundLimit ==
    /\ [](\A c \in DOMAIN rooms :
            /\ rooms[c].totalRounds = 3
            /\ rooms[c].currentRound \in 0..rooms[c].totalRounds)
    /\ [][ \A c \in Codes, z \in Puzzles :
            (/\ c \in DOMAIN rooms
             /\ rooms[c].currentRound = rooms[c].totalRounds
             /\ LogicStartRound(c, z)) =>
               /\ out' = <<Threw("startRound", "All rounds completed")>>
               /\ rooms' = rooms ]_vars

\* C7 witness: the fourth startRound of a game has just been refused
C7_Witness ==
    \E c \in DOMAIN rooms :
        /\ out = <<Threw("startRound", "All rounds completed")>>
        /\ rooms[c].currentRound = 3
        /\ Len(rooms[c].puzzles) = 3

MaxTotalScore(game) ==
    CHOOSE m \in { game.players[q].totalScore : q \in PlayerIds(game) } :
        \A q \in PlayerIds(game) : game.players[q].totalScore <= m

Leaders(game) ==
    { q \in PlayerIds(game) : game.players[q].totalScore = MaxTotalScore(game) }

\* C8: when a game with players finishes, finalResults.isTie is true and
\* winner is null if two or more players share the maximum totalScore;
\* otherwise isTie is false and winner is the one player with the maximum.
C8_TieDetection ==
    [][ \A c \in Codes :
          (/\ c \in DOMAIN rooms /\ c \in DOMAIN rooms'
           /\ rooms[c].gameStatus # "finished"
           /\ rooms'[c].gameStatus = "finished"
           /\ PlayerIds(rooms'[c]) # {}) =>
            LET h == rooms'[c]
            IN  IF Cardinality(Leaders(h)) >= 2
                THEN h.finalResults.isTie /\ h.finalResults.winner = Null
                ELSE /\ ~h.finalResults.isTie
                     /\ h.finalResults.winner # Null
                     /\ Leaders(h) = {h.finalResults.winner.id}
                     /\ h.finalResults.winner.totalScore = MaxTotalScore(h) ]_vars

\* C8 witness: two players with the round scores 30, 40, 30 each; the game
\* has finished as a tie.
C8_Witness ==
    \E c \in DOMAIN rooms :
        /\ rooms[c].gameStatus = "finished"
        /\ PlayerIds(rooms[c]) = {1, 2}
        /\ Len(rooms[c].roundResults) = 3
        /\ \A q \in {1, 2} : RoundScoresOf(rooms[c], q) = <<30, 40, 30>>
        /\ rooms[c].finalResults.isTie
        /\ rooms[c].finalResults.winner = Null

\* C9: restartGame on a finished game keeps the set of players and each
\* one's id, name and connected, resets each one's totalScore, roundScore,
\* words, ready and hasSubmittedResults, and sets currentRound = 0,
\* gameStatus = roundStatus = waiting, roundResults empty, finalResults null.
C9_RestartInvariant ==
    [][ \A c \in Codes, z \in Puzzles :
          (/\ c \in DOMAIN rooms
           /\ rooms[c].gameStatus = "finished"
           /\ LogicRestartGame(c, z)) =>
            LET g == rooms[c]
                h == rooms'[c]
            IN  /\ out' = << >>
                /\ PlayerIds(h) = PlayerIds(g)
                /\ h.order = g.order
                /\ \A q \in PlayerIds(g) :
                     /\ h.players[q].id = g.players[q].id
                     /\ h.players[q].name = g.players[q].name
                     /\ h.players[q].connected = g.players[q].connected
                     /\ h.players[q].totalScore = 0
                     /\ h.players[q].roundScore = 0
                     /\ h.players[q].words = << >>
                     /\ h.players[q].ready = FALSE
                     /\ h.players[q].hasSubmittedResults = "false"
                /\ h.currentRound = 0
                /\ h.gameStatus = "waiting"
                /\ h.roundStatus = "waiting"
                /\ h.roundResults = << >>
                /\ h.finalResults = Null ]_vars

\* C9 witness: a game back at its start with a player marked disconnected,
\* which only a restart of a finished game leaves behind.
C9_Witness ==
    \E c \in DOMAIN rooms :
        /\ rooms[c].gameStatus = "waiting"
        /\ rooms[c].currentRound = 0
        /\ PlayerIds(rooms[c]) = {1, 2}
        /\ ~rooms[c].players[2].connected
        /\ rooms[c].players[1].connected
        /\ out = << >>

\* The round-ended and game-finished broadcasts among msgs
EndBroadcasts(msgs) ==
    SelectSeq(msgs, LAMBDA m : m.ev \in {"round-ended", "game-finished"})

\* C3: whichever way the all-submitted path and the expiry-and-grace path
\* interleave, a round is ended exactly once: every round number is in
\* roundResults at most once and is there once the round has ended; the
\* step that ends the round records it, adds each roundScore into totalScore
\* once and sends exactly one round-ended/game-finished broadcast for it, and
\* no other step records a round, adds to a total or sends such a broadcast.
C3_RoundEndedOnce ==
    /\ [](\A c \in DOMAIN rooms :
            LET g == rooms[c]
            IN  /\ \A i \in 1..Len(g.roundResults) : g.roundResults[i].round = i
                /\ Len(g.roundResults) = IF g.roundStatus = "active"
                                         THEN g.currentRound - 1
                                         ELSE g.currentRound)
    /\ [][ \A c \in DOMAIN rooms \cap DOMAIN rooms' :
            LET g == rooms[c]
                h == rooms'[c]
                ends == EndBroadcasts(out')
            IN  IF g.roundStatus = "active" /\ h.roundStatus = "ended"
                THEN /\ h.currentRound = g.currentRound
                     /\ h.roundResults
                          = Append(g.roundResults, Last(h.roundResults))
                     /\ \A q \in PlayerIds(g) :
                          h.players[q].totalScore
                            = g.players[q].totalScore + h.players[q].roundScore
                     /\ Len(ends) = 1
                     /\ ends[1].to = c
                     /\ ends[1].info = g.currentRound
                ELSE /\ ends = << >>
                     /\ h.roundResults \in {g.roundResults, << >>}
                     /\ \A q \in PlayerIds(g) :
                          h.players[q].totalScore <= g.players[q].totalScore ]_vars

\* C3 witness: the clock of round 2 expired and, within the grace window,
\* the last submission ended the round; the forced end is still pending.
C3_Witness ==
    \E t \in Pending :
        /\ t.kind = "grace"
        /\ t.room \in DOMAIN rooms
        /\ rooms[t.room].roundStatus = "ended"
        /\ rooms[t.room].currentRound = 2
        /\ Len(EndBroadcasts(out)) = 1

\* C4: while a round is active, a submit-round-results event that leaves
\* every connected player with hasSubmittedResults = true ends the round in
\* that same handler, also when a disconnected member has not submitted.
C4_AllConnectedSubmittedEndsRound ==
    [][ \A p \in Ids : \A s \in SubmissionsOf(p) :
          (/\ submitError(Reg, p) = ""
           /\ rooms[playerRooms[p]].roundStatus = "active"
           /\ SubmitRoundResultsEvent(p, s)
           /\ \A q \in ConnectedPlayers(rooms'[playerRooms[p]]) :
                rooms'[playerRooms[p]].players[q].hasSubmittedResults = "true") =>
            /\ rooms'[playerRooms[p]].roundStatus = "ended"
            /\ Len(EndBroadcasts(out')) = 1 ]_vars

\* C4 witness: a submission has just ended an active round in its handler
\* while the round clock was still running.
C4_Witness ==
    \E c \in DOMAIN rooms :
        /\ rooms[c].roundStatus = "ended"
        /\ Len(EndBroadcasts(out)) = 1
        /\ \A q \in PlayerIds(rooms[c]) :
             rooms[c].players[q].hasSubmittedResults = "true"
        /\ \A t \in Pending : t.kind # "grace"

\* C10: a disconnect (leaveRoom) and a later reconnect (rejoinRoom) each
\* leave the room registered and change nothing in the game but the
\* connected flag of that player, so totalScore and every other player's
\* record are as before; and no step removes a room in which a player is
\* connected, the cleanup that was scheduled meanwhile included.
C10_ReconnectKeepsRoomAndScores ==
    [][ \A p \in Ids, c \in Codes :
          /\ (/\ p \in DOMAIN playerRooms
              /\ playerRooms[p] = c
              /\ c \in DOMAIN rooms
              /\ p \in PlayerIds(rooms[c])
              /\ DisconnectEvent(p)) =>
                /\ c \in DOMAIN rooms'
                /\ rooms'[c] = [ rooms[c] EXCEPT !.players[p].connected = FALSE ]
          /\ (/\ rejoinRoomError(Reg, c, p) = ""
              /\ ReconnectToRoomEvent(p, c, NameOf(p))) =>
                /\ c \in DOMAIN rooms'
                /\ rooms'[c] = [ rooms[c] EXCEPT !.players[p].connected = TRUE ]
          /\ (c \in DOMAIN rooms /\ ConnectedPlayers(rooms[c]) # {}) =>
                c \in DOMAIN rooms' ]_vars

\* C10 witness: in round 2 every player left, the cleanup was scheduled, and
\* the player who had scored in round 1 is connected again without a
\* playerRooms entry, the round still active and the cleanup still pending.
C10_Witness ==
    \E c \in DOMAIN rooms : \E p \in PlayerIds(rooms[c]) :
        /\ rooms[c].roundStatus = "active"
        /\ rooms[c].currentRound = 2
        /\ rooms[c].players[p].connected
        /\ p \notin DOMAIN playerRooms
        /\ rooms[c].players[p].totalScore = 16
        /\ \E t \in Pending : t.kind = "cleanup" /\ t.room = c /\ t.remaining > 0

\* C2: in every state with gameStatus = finished, every player's totalScore
\* is the sum of that player's roundScore over the RoundResults of the game.
C2_RoundTotalInvariant ==
    \A c \in DOMAIN rooms :
        rooms[c].gameStatus = "finished" =>
            \A q \in PlayerIds(rooms[c]) :
                rooms[c].players[q].totalScore
                    = SumRoundScores(rooms[c].roundResults, q, 1)

C5_RoundAlwaysEnds ==
    /\ \A c \in Codes :
         (c \in DOMAIN rooms /\ rooms[c].roundStatus = "active")
           ~> (c \in DOMAIN rooms /\ rooms[c].roundStatus = "ended")
    /\ [][ \A t \in Pending :
            (/\ t.room \in DOMAIN rooms
             /\ rooms[t.room].roundStatus = "active"
             /\ GraceFire(t)) =>
               LET g == rooms[t.room]
                   h == rooms'[t.room]
                   r == Last(h.roundResults)
               IN  /\ h.roundStatus = "ended"
                   /\ r.round = g.currentRound
                   /\ \A q \in PlayerIds(g) :
                        g.players[q].hasSubmittedResults # "true" =>
                          /\ r.players[q].words = << >>
                          /\ r.players[q].wordCount = 0
                          /\ r.players[q].roundScore = 0
                          /\ r.players[q].totalScore = g.players[q].totalScore
                          /\ h.players[q].totalScore = g.players[q].totalScore ]_vars

\* C5 witness: round 2 was ended by the forced end with a player who had
\* not submitted and keeps the 16 points of round 1.
C5_Witness ==
    \E c \in DOMAIN rooms : \E q \in PlayerIds(rooms[c]) :
        /\ rooms[c].roundStatus = "ended"
        /\ rooms[c].currentRound = 2
        /\ out = <<Emit("round-ended", c, 2)>>
        /\ \A t \in Pending : t.kind # "interval"
        /\ rooms[c].players[q].hasSubmittedResults = "false"
        /\ rooms[c].players[q].totalScore = 16
        /\ Last(rooms[c].roundResults).players[q].roundScore = 0

\* The cleanup timers pending for room c in the bag b
CleanupTimers(b, c) == { t \in BagToSet(b) : t.kind = "cleanup" /\ t.room = c }

LeaveRoomEffect(p, c) ==
    /\ rooms' = [ rooms EXCEPT ![c].players[p].connected = FALSE ]
    /\ playerRooms' = MapDelete(playerRooms, {p})
    /\ IF ConnectedPlayers(rooms[c]) = {p}
       THEN /\ CleanupTimers(timers', c)
                 = {Timer("cleanup", c, CLEANUP_SECONDS, TRUE)}
            /\ CopiesIn(Timer("cleanup", c, CLEANUP_SECONDS, TRUE), timers') = 1
            /\ c \in roomTimers'
            /\ \A t \in BagToSet(timers) \cup BagToSet(timers') :
                 t.kind # "cleanup" => CopiesIn(t, timers') = CopiesIn(t, timers)
       ELSE /\ timers' = timers
            /\ roomTimers' = roomTimers

\* C12: the disconnect of a player who is a connected member of a
\* registered room marks that player connected = false, keeps the record,
\* removes the player's playerRooms entry, leaves the room registered and
\* schedules a cleanup exactly when no player remains connected.
C12_LeaveRoomEffect ==
    [][ \A p \in Ids : \A c \in DOMAIN rooms :
          (p \in ConnectedPlayers(rooms[c]) /\ DisconnectEvent(p)) =>
             LeaveRoomEffect(p, c) ]_vars

\* C12 for the players that have a playerRooms entry: the same effect,
\* required only of the disconnects of sockets the registry maps to the room.
C12_LeaveRoomOfMappedPlayer ==
    [][ \A p \in Ids :
          (/\ p \in DOMAIN playerRooms
           /\ playerRooms[p] \in DOMAIN rooms
           /\ p \in ConnectedPlayers(rooms[playerRooms[p]])
           /\ DisconnectEvent(p)) =>
             LeaveRoomEffect(p, playerRooms[p]) ]_vars

\* C12 witness: with a round running, one of two players has left: the
\* record is kept with its 16 points, the other player is connected, and
\* no cleanup is pending.
C12_Witness ==
    \E c \in DOMAIN rooms : \E p \in PlayerIds(rooms[c]) :
        /\ rooms[c].roundStatus = "active"
        /\ ~rooms[c].players[p].connected
        /\ rooms[c].players[p].totalScore = 16
        /\ p \notin DOMAIN playerRooms
        /\ ConnectedPlayers(rooms[c]) # {}
        /\ CleanupTimers(timers, c) = {}

\* C13: reconnect-to-room is accepted exactly when the room is registered
\* and the player id is a member of it; then it sets connected = true (and
\* the name sent) and changes no score, word list or status of any game;
\* otherwise it answers 'Room not found' or 'Player not found in room' and
\* changes nothing, adding no player.
C13_RejoinOnlyMembers ==
    [][ \A p \in Ids, c \in Codes :
          ReconnectToRoomEvent(p, c, NameOf(p)) =>
            IF c \in DOMAIN rooms /\ p \in PlayerIds(rooms[c])
            THEN /\ rooms' = [ rooms EXCEPT ![c].players[p].connected = TRUE,
                                            ![c].players[p].name = NameOf(p) ]
                 /\ rooms'[c].players[p].totalScore = rooms[c].players[p].totalScore
                 /\ rooms'[c].players[p].words = rooms[c].players[p].words
                 /\ out' = << >>
            ELSE /\ UNCHANGED <<rooms, playerRooms, roomTimers, timers>>
                 /\ out' = <<Ack(p, FALSE,
                                 IF c \notin DOMAIN rooms THEN "Room not found"
                                 ELSE "Player not found in room")>> ]_vars

\* C13 witness: a socket that never joined the registered room has just
\* been refused
C13_Witness ==
    \E c \in DOMAIN rooms :
        /\ PlayerIds(rooms[c]) = {1}
        /\ out = <<Ack(2, FALSE, "Player not found in room")>>

\* C14: join-room sent by a player id that is already a member of the room
\* is a reconnect: it is accepted, the player count stays, the player's
\* totalScore, roundScore and words stay, and connected is true afterwards,
\* whether or not the player had left the room in between.
C14_JoinByMemberIsReconnect ==
    [][ \A p \in Ids, c \in Codes :
          (/\ c \in DOMAIN rooms
           /\ p \in PlayerIds(rooms[c])
           /\ JoinRoomEvent(p, c, NameOf(p))) =>
             /\ out' = << >>
             /\ PlayerCount(rooms'[c]) = PlayerCount(rooms[c])
             /\ rooms'[c].players[p].totalScore = rooms[c].players[p].totalScore
             /\ rooms'[c].players[p].roundScore = rooms[c].players[p].roundScore
             /\ rooms'[c].players[p].words = rooms[c].players[p].words
             /\ rooms'[c].players[p].connected ]_vars

\* C14 for a member that has not left: the playerRooms entry is there and
\* joinRoom goes to rejoinRoom, which changes nothing but connected and name.
C14_JoinByMappedMember ==
    [][ \A p \in Ids, c \in Codes :
          (/\ c \in DOMAIN rooms
           /\ p \in PlayerIds(rooms[c])
           /\ p \in DOMAIN playerRooms
           /\ JoinRoomEvent(p, c, NameOf(p))) =>
             /\ out' = << >>
             /\ rooms' = [ rooms EXCEPT ![c].players[p].connected = TRUE,
                                        ![c].players[p].name = NameOf(p) ] ]_vars

\* C15: create-room from a socket that has a playerRooms entry is refused
\* with the already-in-room error and changes nothing; from a socket that
\* has none, and a code having been allocated, it registers under a code not
\* registered before a game in status waiting, round 0, whose only player is
\* the creator, not ready and connected, and maps the socket to that code.
C15_CreateRoom ==
    [][ \A p \in Ids, a \in AttemptSamples, c \in RegistryCodes, z \in Puzzles :
          CreateRoomEvent(p, NameOf(p), a, c, z) =>
            IF p \in DOMAIN playerRooms
            THEN /\ out' = <<Ack(p, FALSE, "Player already in room")>>
                 /\ UNCHANGED <<rooms, playerRooms, roomTimers, timers>>
            ELSE a < maxAttempts =>
                 /\ c \notin DOMAIN rooms
                 /\ DOMAIN rooms' = DOMAIN rooms \cup {c}
                 /\ rooms'[c].roomCode = c
                 /\ rooms'[c].gameStatus = "waiting"
                 /\ rooms'[c].roundStatus = "waiting"
                 /\ rooms'[c].currentRound = 0
                 /\ rooms'[c].roundResults = << >>
                 /\ PlayerIds(rooms'[c]) = {p}
                 /\ ~rooms'[c].players[p].ready
                 /\ rooms'[c].players[p].connected
                 /\ rooms'[c].players[p].totalScore = 0
                 /\ playerRooms' = MapPut(playerRooms, p, c)
                 /\ out' = << >> ]_vars

\* C15 witness: each of the two sockets has created a room of its own
C15_Witness ==
    /\ DOMAIN rooms = {"1000", "2000"}
    /\ \E p \in Ids :
         /\ PlayerIds(rooms["1000"]) = {p}
         /\ PlayerIds(rooms["2000"]) = Ids \ {p}
         /\ playerRooms = [ q \in Ids |-> IF q = p THEN "1000" ELSE "2000" ]

\* C16: create-room never registers a game under a code that is registered
\* already: every step of it leaves each registered room as it was, and the
\* room it adds has a code that was free; the roomCode of every registered
\* game is the code it is registered under.
C16_RoomCodesUnique ==
    /\ [](\A c \in DOMAIN rooms : rooms[c].roomCode = c)
    /\ [][ \A p \in Ids, a \in AttemptSamples, c \in RegistryCodes, z \in Puzzles :
            CreateRoomEvent(p, NameOf(p), a, c, z) =>
              /\ \A d \in DOMAIN rooms :
                   d \in DOMAIN rooms' /\ rooms'[d] = rooms[d]
              /\ rooms' # rooms =>
                   c \notin DOMAIN rooms /\ DOMAIN rooms' = DOMAIN rooms \cup {c} ]_vars

\* C16 witness: socket 1, having left room 2000, has created room 1000 while
\* room 2000 is still registered.
C16_Witness ==
    /\ DOMAIN rooms = {"1000", "2000"}
    /\ PlayerIds(rooms["1000"]) = {1}
    /\ PlayerIds(rooms["2000"]) = {1, 2}
    /\ ~rooms["2000"].players[1].connected
    /\ 1 \in DOMAIN playerRooms /\ playerRooms[1] = "1000"

\* C17: create-room from a socket in no room, whose run of the drawing loop
\* ends on a free code, the 100th draw included, registers the room under
\* that code; and a creation that fails for want of a code changes nothing.
C17_FreeDrawIsReturned ==
    [][ \A p \in Ids, a \in AttemptSamples, c \in RegistryCodes, z \in Puzzles :
          (/\ p \notin DOMAIN playerRooms
           /\ CreateRoomEvent(p, NameOf(p), a, c, z)) =>
             IF c \notin DOMAIN rooms
             THEN c \in DOMAIN rooms' /\ out' = << >>
             ELSE /\ out' = <<Ack(p, FALSE, "Unable to generate unique room code")>>
                  /\ UNCHANGED <<rooms, playerRooms, roomTimers, timers>> ]_vars

\* C17 for the draws before the 100th: a loop that ends on a free code
\* within 99 draws registers it, and a loop whose 100th draw is taken,
\* free or not, fails with the error and changes nothing.
C17_DrawsBeforeTheLast ==
    [][ \A p \in Ids, a \in AttemptSamples, c \in RegistryCodes, z \in Puzzles :
          (/\ p \notin DOMAIN playerRooms
           /\ CreateRoomEvent(p, NameOf(p), a, c, z)) =>
             IF a < maxAttempts
             THEN c \notin DOMAIN rooms /\ c \in DOMAIN rooms' /\ out' = << >>
             ELSE /\ out' = <<Ack(p, FALSE, "Unable to generate unique room code")>>
                  /\ UNCHANGED <<rooms, playerRooms, roomTimers, timers>> ]_vars

\* C18: a countdown that runs out starts the round only if every connected
\* player of the room is ready at that moment: a player who withdrew
\* readiness, left, or joined not ready during the countdown keeps the round
\* from starting.
C18_ReadyGating ==
    [][ \A t \in Pending, z \in Puzzles :
          (/\ t.room \in DOMAIN rooms
           /\ CountdownFire(t, z, FALSE)
           /\ rooms'[t.room].roundStatus = "active"
           /\ rooms'[t.room].currentRound = rooms[t.room].currentRound + 1) =>
             /\ ConnectedPlayers(rooms[t.room]) # {}
             /\ \A q \in ConnectedPlayers(rooms[t.room]) :
                  rooms[t.room].players[q].ready ]_vars

\* C18 at the moment the countdown is started: the player-ready handler
\* starts a countdown only when every player of the room is ready and
\* connected.
C18_CountdownNeedsAllReady ==
    [][ \A c \in DOMAIN rooms \cap DOMAIN rooms' :
          (\E t \in BagToSet(timers') :
             /\ t.kind = "countdown" /\ t.room = c
             /\ t.remaining = COUNTDOWN_DURATION
             /\ CopiesIn(t, timers') > CopiesIn(t, timers)) =>
            /\ PlayerCount(rooms'[c]) >= MIN_PLAYERS
            /\ \A q \in PlayerIds(rooms'[c]) :
                 rooms'[c].players[q].connected
                   /\ (rooms'[c].players[q].ready \/ rooms[c].gameStatus = "finished") ]_vars

\* C19: in every state every registered game has (gameStatus, roundStatus)
\* among (waiting, waiting), (playing, active), (between-rounds, ended) and
\* (finished, ended); so an active round implies gameStatus = playing.
C19_StatusPairs ==
    \A c \in DOMAIN rooms :
        <<rooms[c].gameStatus, rooms[c].roundStatus>> \in
            { <<"waiting", "waiting">>, <<"playing", "active">>,
              <<"between-rounds", "ended">>, <<"finished", "ended">> }

\* C19 witness: a game that went through all four pairs: finished after
\* three rounds, restarted to (waiting, waiting) with every total back at 0,
\* its countdown to the new round 1 pending
C19_Witness ==
    \E c \in DOMAIN rooms :
        /\ rooms[c].gameStatus = "waiting"
        /\ rooms[c].roundStatus = "waiting"
        /\ out = <<Emit("game-restarted", c, 0), Emit("countdown-started", c, 1)>>
        /\ \E t \in Pending : t.kind = "countdown" /\ t.room = c

\* C20: within one game every step leaves currentRound as it is, or raises
\* it by exactly 1, which only a startRound does, making the round active;
\* or lowers it, which only restartGame does, from a finished game and to 0.
C20_CurrentRoundAdvances ==
    [][ \A c \in DOMAIN rooms \cap DOMAIN rooms' :
          LET a == rooms[c].currentRound
              b == rooms'[c].currentRound
          IN  /\ b = a \/ b = a + 1 \/ b < a
              /\ b = a + 1 =>
                   /\ rooms'[c].roundStatus = "active"
                   /\ rooms'[c].gameStatus = "playing"
              /\ b < a =>
                   /\ b = 0
                   /\ rooms[c].gameStatus = "finished"
                   /\ rooms'[c].gameStatus = "waiting"
                   /\ rooms'[c].roundResults = << >> ]_vars

\* C20 witness: a game restarted after its third round, the second player
\* having been marked disconnected when it was finished, is in round 1 again.
C20_Witness ==
    \E c \in DOMAIN rooms :
        /\ rooms[c].currentRound = 1
        /\ rooms[c].roundStatus = "active"
        /\ PlayerIds(rooms[c]) = {1, 2}
        /\ ~rooms[c].players[2].connected

(***************************************************************************)
(* C21: a refused event changes nothing                                    *)
(***************************************************************************)
\* The socket p is answered {success: false, error} and nothing else is
\* sent; registry, mappings, timers and games are as they were.
Refused(p) ==
    /\ Len(out') = 1
    /\ out'[1].ev = "ack" /\ out'[1].to = p
    /\ ~out'[1].success /\ out'[1].error # ""
    /\ UNCHANGED <<rooms, playerRooms, roomTimers, timers>>

\* C21: every inbound event the server rejects (create-room from a socket
\* that has a room or when no free code is drawn, join-room for an unknown
\* room or from a socket mapped to another room, reconnect-to-room for an
\* unknown room or by a non-member, player-ready and submit-round-results
\* from a socket that has no room) is answered {success: false, error} to
\* the sender alone, with no broadcast, and leaves the rooms, the mappings,
\* the timers and every game unchanged; and whenever a failure is answered,
\* it is the only message and nothing has changed.
C21_RefusalChangesNothing ==
    [][ /\ \A p \in Ids, a \in AttemptSamples, c \in Codes, z \in Puzzles :
             ( /\ p \in DOMAIN playerRooms \/ a = maxAttempts
               /\ CreateRoomEvent(p, NameOf(p), a, c, z) ) => Refused(p)
        /\ \A p \in Ids, c \in RegistryCodes :
             ( /\ \/ p \notin DOMAIN playerRooms /\ c \notin DOMAIN rooms
                  \/ p \in DOMAIN playerRooms /\ playerRooms[p] # c
               /\ JoinRoomEvent(p, c, NameOf(p)) ) => Refused(p)
        /\ \A p \in Ids, c \in Codes :
             ( /\ \/ c \notin DOMAIN rooms
                  \/ c \in DOMAIN rooms /\ p \notin PlayerIds(rooms[c])
               /\ ReconnectToRoomEvent(p, c, NameOf(p)) ) => Refused(p)
        /\ \A p \in Ids, r \in BOOLEAN, z \in Puzzles :
             ( /\ p \notin DOMAIN playerRooms
               /\ PlayerReadyEvent(p, r, z) ) => Refused(p)
        /\ \A p \in Ids : \A s \in SubmissionsOf(p) :
             ( /\ p \notin DOMAIN playerRooms
               /\ SubmitRoundResultsEvent(p, s) ) => Refused(p)
        /\ ( \E i \in 1..Len(out') : out'[i].ev = "ack" /\ ~out'[i].success )
             => \E p \in Ids : Refused(p)
      ]_vars

\* A round is being played with its clock running, and the socket that left
\* the room has just had its player-ready refused.
C21_Witness ==
    /\ \E c \in DOMAIN rooms : rooms[c].roundStatus = "active"
    /\ \E t \in Pending : t.kind = "interval"
    /\ \E p \in Ids : /\ p \notin DOMAIN playerRooms
                      /\ out = <<Ack(p, FALSE, "Player not in any room")>>

(***************************************************************************)
(* C22: rooms do not interfere                                             *)
(***************************************************************************)
GameOf(c) == IF c \in DOMAIN rooms THEN rooms[c] ELSE Null

\* The pending timers of room c
TimersOf(b, c) == [ t \in { u \in DOMAIN b : u.room = c } |-> b[t] ]

\* The scheduled tasks of room c, whatever time they have left
TasksOf(b, c) ==
    [ k \in {"countdown", "interval", "grace", "cleanup"} \X BOOLEAN |->
        BagCardinality([ t \in { u \in DOMAIN b : /\ u.room = c
                                                   /\ u.kind = k[1]
                                                   /\ u.held = k[2] } |-> b[t] ]) ]

\* The step leaves every room but c alone: game, timers and timer entry
OthersUntouched(c) ==
    \A y \in RegistryCodes \ {c} :
        /\ GameOf(y)' = GameOf(y)
        /\ TimersOf(timers', y) = TimersOf(timers, y)
        /\ (y \in roomTimers') = (y \in roomTimers)

\* C22: an inbound event or a timer callback handled for one room changes
\* the game of no other room and cancels or schedules no task of another
\* room, however the events and callbacks of the two rooms interleave; the
\* passing of time changes no game and cancels or schedules no task.
C22_RoomsIsolated ==
    [][ /\ \A p \in TwoRoomIds, z \in Puzzles :
             CreateRoomEvent(p, NameOf(p), 1, RoomOf(p), z)
               => OthersUntouched(RoomOf(p))
        /\ \A p \in TwoRoomIds :
             JoinRoomEvent(p, RoomOf(p), NameOf(p)) => OthersUntouched(RoomOf(p))
        /\ \A p \in TwoRoomIds, z \in Puzzles :
             (p \in DOMAIN playerRooms /\ PlayerReadyEvent(p, TRUE, z))
               => OthersUntouched(playerRooms[p])
        /\ \A p \in TwoRoomIds :
             ( /\ p \in DOMAIN playerRooms
               /\ SubmitRoundResultsEvent(p, [words |-> <<>>, totalScore |-> 0]) )
               => OthersUntouched(playerRooms[p])
        /\ \A t \in Pending, z \in Puzzles :
             CountdownFire(t, z, FALSE) => OthersUntouched(t.room)
        /\ \A t \in Pending : IntervalFire(t) => OthersUntouched(t.room)
        /\ \A t \in Pending : GraceFire(t) => OthersUntouched(t.room)
        /\ Tick => \A y \in RegistryCodes :
                     /\ GameOf(y)' = GameOf(y)
                     /\ TasksOf(timers', y) = TasksOf(timers, y)
      ]_vars

\* C22 witness: the last result of room "1000" has just ended its round
\* while the round clock of room "2000" is running
C22_Witness ==
    /\ DOMAIN rooms = RegistryCodes
    /\ rooms["1000"].roundStatus = "ended"
    /\ out = <<Emit("round-ended", "1000", 1)>>
    /\ rooms["2000"].roundStatus = "active"
    /\ \E t \in Pending : t.room = "2000" /\ t.kind = "interval" /\ t.held

(***************************************************************************)
(* C23: the scoring table                                                  *)
(***************************************************************************)
\* The points the scoring table of the README gives
TablePoints(length, isPangram) ==
    ( CASE length < 4 -> 0
        [] length = 4 -> 4
        [] length = 5 -> 9
        [] length = 6 -> 16
        [] length = 7 -> 25
        [] OTHER -> 0 )
    + (IF isPangram THEN 25 ELSE 0)

\* The words of the last call with their points: <<word, isPangram, points>>
Scored ==
    IF out = << >> THEN {}
    ELSE IF out[1].ev = "calculateTotalPoints"
    THEN { <<out[1].info.word, out[1].info.isPangram, out[1].info.points>> }
    ELSE IF out[1].ev = "getRandomPuzzle"
    THEN { <<w, w \in out[1].info.pangrams, out[1].info.wordPoints[w]>> :
             w \in out[1].info.validWords }
    ELSE {}

\* C23: a word scores as the documented table says: fewer than 4 letters 0
\* points, 4 letters 4, 5 letters 9, 6 letters 16, 7 letters 25, and 25
\* more for a pangram, so that a 7-letter pangram scores 50.
C23_ScoringTable ==
    \A s \in Scored :
        WordLength(s[1]) <= 7 => s[3] = TablePoints(WordLength(s[1]), s[2])

\* What the code computes: 0 below 4 letters, else the square of the
\* length, and 25 more for a pangram.
C23_LengthSquared ==
    \A s \in Scored :
        s[3] = (IF WordLength(s[1]) < 4 THEN 0
                ELSE WordLength(s[1]) * WordLength(s[1]))
               + (IF s[2] THEN 25 ELSE 0)

\* C23 witness: a 7-letter pangram and a 4-letter word of one puzzle have
\* been given their points
C23_Witness ==
    /\ out # << >>
    /\ out[1].ev = "getRandomPuzzle"
    /\ out[1].info.pangrams = {"letters"}
    /\ out[1].info.validWords = {"letters", "acne"}

(***************************************************************************)
(* C24: one timer sequence per room                                        *)
(***************************************************************************)
\* How many timers of the kind are pending for room c
PendingOf(b, c, kind) ==
    BagCardinality([ t \in { u \in DOMAIN b : u.room = c /\ u.kind = kind }
                       |-> b[t] ])

\* C24: a room has at most one pending countdown and at most one running
\* round clock.  A player-ready that starts a countdown while one is pending
\* leaves one countdown pending, the new one with its full delay; and the
\* countdown callback that starts a round announces that round once and
\* leaves no countdown of the room behind, so that the repeated player-ready
\* results in one startRound and one round-started.
C24_OneTimerSequence ==
    /\ [](\A c \in Codes : /\ PendingOf(timers, c, "countdown") <= 1
                           /\ PendingOf(timers, c, "interval") <= 1)
    /\ [][ /\ \A p \in Ids, r \in BOOLEAN, z \in Puzzles :
                ( /\ p \in DOMAIN playerRooms
                  /\ PendingOf(timers, playerRooms[p], "countdown") > 0
                  /\ PlayerReadyEvent(p, r, z)
                  /\ \E i \in 1..Len(out') : out'[i].ev = "countdown-started" )
                => /\ PendingOf(timers', playerRooms[p], "countdown") = 1
                   /\ \A t \in DOMAIN timers' :
                        t.kind = "countdown" => t.remaining = COUNTDOWN_DURATION
                   /\ rooms'[playerRooms[p]].currentRound
                        = rooms[playerRooms[p]].currentRound
           /\ \A t \in Pending, z \in Puzzles :
                ( /\ CountdownFire(t, z, FALSE)
                  /\ out' # << >> )
                => /\ out' = <<Emit("round-started", t.room,
                                    rooms[t.room].currentRound + 1)>>
                   /\ rooms'[t.room].currentRound = rooms[t.room].currentRound + 1
                   /\ PendingOf(timers', t.room, "countdown") = 0
                   /\ PendingOf(timers', t.room, "interval") = 1
         ]_vars

\* C24 witness: the countdown of a game that has not begun was due, three
\* seconds after the room had been left empty, when a further player-ready
\* started the countdown anew; the one pending countdown has its full delay
C24_Witness ==
    \E c \in DOMAIN rooms :
        /\ rooms[c].gameStatus = "waiting"
        /\ out = <<Emit("countdown-started", c, 1)>>
        /\ PendingOf(timers, c, "countdown") = 1
        /\ \E t \in Pending : t.kind = "countdown" /\ t.remaining = COUNTDOWN_DURATION
        /\ \E t \in Pending : /\ t.kind = "cleanup"
                              /\ t.remaining = CLEANUP_SECONDS - COUNTDOWN_DURATION

(***************************************************************************)
(* C25: callbacks that come too late                                       *)
(***************************************************************************)
\* The callback of timer t ran and did nothing
NoEffect(t) ==
    /\ UNCHANGED <<rooms, playerRooms, roomTimers>>
    /\ timers' = timers (-) SetToBag({t})
    /\ out' = << >>

C26_ShutdownCancelsAll ==
    [][ Shutdown => timers' = EmptyBag ]_vars

\* What cleanup() does cancel: every countdown, round clock and room cleanup
\* whose handle a roomTimers entry holds; the forced ends stay pending.
C26_ShutdownCancelsHeld ==
    [][ Shutdown =>
          /\ roomTimers' = {}
          /\ \A t \in DOMAIN timers' : t.kind = "grace"
          /\ \A t \in DOMAIN timers : t.kind = "grace" => t \in DOMAIN timers'
          /\ UNCHANGED <<rooms, playerRooms>> ]_vars

\* C26 witness: cleanup() has run during the grace delay of a round whose
\* time had expired: the round is active, roomTimers is empty and the forced
\* end is pending
C26_Witness ==
    /\ roomTimers = {}
    /\ \E c \in DOMAIN rooms : rooms[c].roundStatus = "active"
    /\ \E t \in Pending : t.kind = "grace"

(***************************************************************************)
(* C27: a submission replaces the one before                               *)
(***************************************************************************)
\* The words, the round score and the submitted flag of player p of room c
Submitted(game, p) ==
    <<game.players[p].words, game.players[p].roundScore,
      game.players[p].hasSubmittedResults>>

\* The game but for the words, round score and submitted flag of player p
ButSubmitted(game, p) ==
    [ game EXCEPT !.players[p].words = << >>,
                  !.players[p].roundScore = 0,
                  !.players[p].hasSubmittedResults = "true" ]

TotalScores(game) == [ q \in PlayerIds(game) |-> game.players[q].totalScore ]

\* C28: a submit-round-results that arrives while the round is not active
\* is accepted: it is stored as the player's submission, and it changes no
\* totalScore, no RoundResult and not finalResults.  The round that starts
\* next begins with every player's words empty and roundScore 0, so the
\* late submission has no part in a later score.  The RoundResults of a
\* game only grow at their end, until a restart empties them.
C28_LateSubmission ==
    [][ /\ \A p \in Ids : \A s \in SubmissionsOf(p) :
             ( /\ p \in DOMAIN playerRooms
               /\ rooms[playerRooms[p]].roundStatus # "active"
               /\ SubmitRoundResultsEvent(p, s) )
             => LET c == playerRooms[p]
                IN  /\ out' = << >>
                    /\ rooms'[c].players[p].roundScore = s.totalScore
                    /\ Len(rooms'[c].players[p].words) = Len(s.words)
                    /\ TotalScores(rooms'[c]) = TotalScores(rooms[c])
                    /\ rooms'[c].roundResults = rooms[c].roundResults
                    /\ rooms'[c].finalResults = rooms[c].finalResults
                    /\ rooms'[c].roundStatus = rooms[c].roundStatus
                    /\ rooms'[c].gameStatus = rooms[c].gameStatus
                    /\ UNCHANGED <<playerRooms, roomTimers, timers>>
        /\ \A c \in DOMAIN rooms \cap DOMAIN rooms' :
             /\ rooms'[c].roundStatus = "active" /\ rooms[c].roundStatus # "active"
                  => \A q \in PlayerIds(rooms'[c]) :
                       /\ rooms'[c].players[q].roundScore = 0
                       /\ rooms'[c].players[q].words = << >>
                       /\ rooms'[c].players[q].totalScore
                            = rooms[c].players[q].totalScore
             /\ \/ rooms'[c].roundResults = rooms[c].roundResults
                \/ /\ Len(rooms'[c].roundResults) = Len(rooms[c].roundResults) + 1
                   /\ SubSeq(rooms'[c].roundResults, 1, Len(rooms[c].roundResults))
                        = rooms[c].roundResults
                \/ /\ rooms'[c].roundResults = << >>
                   /\ rooms[c].gameStatus = "finished"
                   /\ rooms'[c].currentRound = 0
      ]_vars

\* C28 witness: the round ended with no word from the second player, whose
\* result list of one word came after that: it is stored as submitted, and
\* the RoundResult and the totalScore are those of the round's end
C28_Witness ==
    \E c \in DOMAIN rooms :
        /\ rooms[c].roundStatus = "ended"
        /\ 2 \in PlayerIds(rooms[c])
        /\ rooms[c].players[2].roundScore = 16
        /\ rooms[c].players[2].hasSubmittedResults = "true"
        /\ Last(rooms[c].roundResults).players[2].roundScore = 0
        /\ rooms[c].players[2].totalScore = 0

(***************************************************************************)
(* C29: what startRound changes                                            *)
(***************************************************************************)
\* What startRound leaves of a player: all but words, roundScore, ready and
\* hasSubmittedResults
PlayerKept(player) ==
    [ player EXCEPT !.words = << >>, !.roundScore = 0, !.ready = FALSE,
                    !.hasSubmittedResults = "false" ]

\* C29: the startRound of the countdown callback adds one to currentRound,
\* sets gameStatus playing and roundStatus active, resets every player's
\* words, roundScore, ready and hasSubmittedResults and leaves the rest of
\* the player (totalScore, name, connected) and the results as they were;
\* it appends a puzzle for every round but the first.  In every reachable
\* state the game has max(1, currentRound) puzzles.
C29_StartRoundFrame ==
    /\ [](\A c \in DOMAIN rooms :
            Len(rooms[c].puzzles) = IF rooms[c].currentRound > 1
                                    THEN rooms[c].currentRound ELSE 1)
    /\ [][ \A t \in Pending, z \in Puzzles :
             ( /\ CountdownFire(t, z, FALSE)
               /\ out' # << >> )
             => LET old == rooms[t.room]
                    new == rooms'[t.room]
                IN  /\ new.currentRound = old.currentRound + 1
                    /\ new.gameStatus = "playing"
                    /\ new.roundStatus = "active"
                    /\ PlayerIds(new) = PlayerIds(old)
                    /\ \A q \in PlayerIds(old) :
                         /\ new.players[q].words = << >>
                         /\ new.players[q].roundScore = 0
                         /\ ~new.players[q].ready
                         /\ new.players[q].hasSubmittedResults = "false"
                         /\ new.players[q].totalScore = old.players[q].totalScore
                         /\ new.players[q].name = old.players[q].name
                         /\ new.players[q].connected = old.players[q].connected
                         /\ PlayerKept(new.players[q]) = PlayerKept(old.players[q])
                    /\ new.roundResults = old.roundResults
                    /\ new.finalResults = old.finalResults
                    /\ new.puzzles = IF new.currentRound > 1
                                     THEN Append(old.puzzles, z) ELSE old.puzzles
                    /\ new.puzzle = Last(new.puzzles)
         ]_vars

\* C29 witness: the second round has just started for a player who left
\* during the countdown and one who scored in the first round
C29_Witness ==
    \E c \in DOMAIN rooms :
        /\ out = <<Emit("round-started", c, 2)>>
        /\ Len(rooms[c].puzzles) = 2
        /\ \E q \in PlayerIds(rooms[c]) : ~rooms[c].players[q].connected
        /\ \E q \in PlayerIds(rooms[c]) :
             /\ rooms[c].players[q].totalScore = 16
             /\ rooms[c].players[q].roundScore = 0
             /\ rooms[c].players[q].words = << >>

(***************************************************************************)
(* C30: where endRound leads                                               *)
(***************************************************************************)
\* C30: the end of an active round leads to finished, with finalResults
\* built, exactly when currentRound = totalRounds, and to between-rounds
\* otherwise, and appends the result of that round.  In every reachable
\* state finalResults is there if and only if gameStatus is finished, and
\* the game has currentRound results when its round has ended, and
\* currentRound - 1 while the round is active.
C30_EndRoundTransitions ==
    /\ [](\A c \in DOMAIN rooms :
            /\ (rooms[c].finalResults # Null) <=> (rooms[c].gameStatus = "finished")
            /\ rooms[c].roundStatus = "ended"
                 => Len(rooms[c].roundResults) = rooms[c].currentRound
            /\ rooms[c].roundStatus = "active"
                 => Len(rooms[c].roundResults) = rooms[c].currentRound - 1)
    /\ [][ \A c \in DOMAIN rooms \cap DOMAIN rooms' :
             ( rooms[c].roundStatus = "active" /\ rooms'[c].roundStatus = "ended" )
             => /\ rooms'[c].currentRound = rooms[c].currentRound
                /\ Last(rooms'[c].roundResults).round = rooms[c].currentRound
                /\ IF rooms[c].currentRound = rooms[c].totalRounds
                   THEN /\ rooms'[c].gameStatus = "finished"
                        /\ rooms'[c].finalResults # Null
                        /\ rooms'[c].finalResults.puzzlesUsed = rooms[c].puzzles
                   ELSE /\ rooms'[c].gameStatus = "between-rounds"
                        /\ rooms'[c].finalResults = Null
         ]_vars

\* C30 witness: the forced end of the last round has finished the game
C30_Witness ==
    \E c \in DOMAIN rooms :
        /\ out = <<Emit("game-finished", c, rooms[c].totalRounds)>>
        /\ rooms[c].gameStatus = "finished"
        /\ rooms[c].finalResults # Null
        /\ Len(rooms[c].roundResults) = rooms[c].currentRound

\* The place of player q in the order the players were added to the game
AddedAt(game, q) == CHOOSE i \in 1..Len(game.order) : game.order[i] = q

\* C31: when a game finishes, finalResults.finalScores holds every player of
\* the game exactly once, each with its totalScore, by totalScore descending;
\* players of equal totalScore stand in the order they were added.
C31_FinalScoresRanked ==
    [][ \A c \in DOMAIN rooms \cap DOMAIN rooms' :
          ( rooms[c].finalResults = Null /\ rooms'[c].finalResults # Null )
          => LET h == rooms'[c]
                 fs == h.finalResults.finalScores
             IN  /\ Len(fs) = PlayerCount(h)
                 /\ { fs[i].id : i \in 1..Len(fs) } = PlayerIds(h)
                 /\ \A i \in 1..Len(fs) :
                      fs[i].totalScore = h.players[fs[i].id].totalScore
                 /\ \A i, j \in 1..Len(fs) :
                      i < j => /\ fs[i].totalScore >= fs[j].totalScore
                               /\ fs[i].totalScore = fs[j].totalScore
                                    => AddedAt(h, fs[i].id) < AddedAt(h, fs[j].id)
      ]_vars

\* C31 witness: socket 2 opened the room, socket 1 joined, and the game has
\* finished with both at the same total: finalScores lists 2 before 1.
C31_Witness ==
    \E c \in DOMAIN rooms :
        /\ rooms[c].finalResults # Null
        /\ rooms[c].order = <<2, 1>>
        /\ rooms[c].finalResults.isTie
        /\ Len(rooms[c].finalResults.finalScores) = 2
        /\ rooms[c].finalResults.finalScores[1].id = 2
        /\ rooms[c].finalResults.finalScores[2].id = 1

(***************************************************************************)
(* C32: the round clock                                                    *)
(***************************************************************************)
\* The round clocks pending for room c
ClockOf(b, c) == { t \in DOMAIN b : t.room = c /\ t.kind = "interval" }

\* What the messages ev to room c among msgs carry
Carried(msgs, ev, c) ==
    { msgs[i].info : i \in { k \in 1..Len(msgs) : msgs[k].ev = ev /\ msgs[k].to = c } }

HowMany(msgs, ev, c) ==
    Cardinality({ k \in 1..Len(msgs) : msgs[k].ev = ev /\ msgs[k].to = c })

\* The round of room c ends in this step and no player's submission came in
ForcedEnd(c) ==
    /\ c \in DOMAIN rooms /\ c \in DOMAIN rooms'
    /\ rooms[c].roundStatus = "active"
    /\ rooms'[c].roundStatus = "ended"
    /\ \A q \in PlayerIds(rooms[c]) :
         /\ rooms'[c].players[q].hasSubmittedResults
              = rooms[c].players[q].hasSubmittedResults
         /\ rooms'[c].players[q].words = rooms[c].players[q].words

\* C32: timer-update is sent only by the clock of a room whose round is
\* active, with timeRemaining in 0..90, and what the clock of a round shows
\* never goes up: a room has one clock at most, a clock begins with a new
\* round, its elapsed time does not go back, and after an update no clock of
\* the round shows more than the update did.  round-time-expired is sent
\* once, with the update that shows 0, and ends the clock of the round.  The
\* forced end is scheduled by that step only, for 2 seconds later, and it
\* ends the round only when those have passed and the round is still active.
C32_RoundClock ==
    /\ [](\A c \in Codes : PendingOf(timers, c, "interval") <= 1)
    /\ [][ \A c \in Codes :
             /\ \A v \in Carried(out', "timer-update", c) :
                  /\ c \in DOMAIN rooms /\ rooms[c].roundStatus = "active"
                  /\ v \in 0..ROUND_DURATION
                  /\ \E t \in ClockOf(timers, c) :
                       t.remaining = 0 /\ v = timeRemainingOf(t)
                  /\ \A u \in ClockOf(timers', c) : timeRemainingOf(u) <= v
             /\ \A t \in ClockOf(timers, c), u \in ClockOf(timers', c) :
                  u.elapsed >= t.elapsed
             /\ ( ClockOf(timers, c) = {} /\ ClockOf(timers', c) # {} )
                  => /\ c \in DOMAIN rooms
                     /\ rooms[c].roundStatus # "active"
                     /\ rooms'[c].roundStatus = "active"
                     /\ rooms'[c].currentRound = rooms[c].currentRound + 1
                     /\ \A u \in ClockOf(timers', c) : u.elapsed = 0
             /\ HowMany(out', "round-time-expired", c) <= 1
             /\ HowMany(out', "round-time-expired", c) = 1
                  => /\ Carried(out', "timer-update", c) = {0}
                     /\ rooms'[c].roundStatus = "active"
                     /\ ClockOf(timers', c) = {}
                     /\ PendingOf(timers', c, "grace")
                          = PendingOf(timers, c, "grace") + 1
                     /\ \E g \in DOMAIN timers' :
                          g.kind = "grace" /\ g.room = c
                          /\ g.remaining = GRACE_SECONDS
             /\ PendingOf(timers', c, "grace") > PendingOf(timers, c, "grace")
                  => HowMany(out', "round-time-expired", c) = 1
             /\ ForcedEnd(c)
                  => /\ \E g \in Pending :
                          g.kind = "grace" /\ g.room = c /\ g.remaining = 0
                     /\ PendingOf(timers', c, "grace")
                          = PendingOf(timers, c, "grace") - 1
         ]_vars

\* C32 witness: the clock of the first round has expired, the 2 seconds have
\* passed, and the forced end has closed the round, one player's results
\* missing
C32_Witness ==
    \E c \in DOMAIN rooms :
        /\ out = <<Emit("round-ended", c, 1)>>
        /\ rooms[c].roundStatus = "ended"
        /\ PendingOf(timers, c, "grace") = 0
        /\ PendingOf(timers, c, "interval") = 0
        /\ \E q \in PlayerIds(rooms[c]) :
             rooms[c].players[q].hasSubmittedResults = "false"

(***************************************************************************)
(* C33: restarting a game                                                  *)
(***************************************************************************)
\* The game of room c goes back to waiting in this step
Restarted(c) ==
    /\ c \in DOMAIN rooms /\ c \in DOMAIN rooms'
    /\ \/ rooms[c].gameStatus # "waiting" /\ rooms'[c].gameStatus = "waiting"
       \/ rooms'[c].currentRound < rooms[c].currentRound

\* C33: a game goes back to waiting only from finished, in a player-ready
\* step of one of its mapped players, when it has at least 2 players, all
\* connected and all ready once the sender's ready flag is set, and the room
\* is sent game-restarted.  restartGame on a game that has not finished
\* throws 'Can only restart a finished game' and changes nothing.
C33_RestartOnlyWhenFinished ==
    [][ \A c \in Codes :
          /\ Restarted(c)
               => /\ rooms[c].gameStatus = "finished"
                  /\ PlayerCount(rooms[c]) >= MIN_PLAYERS
                  /\ \A q \in PlayerIds(rooms[c]) : rooms[c].players[q].connected
                  /\ \E p \in PlayerIds(rooms[c]) :
                       /\ p \in DOMAIN playerRooms /\ playerRooms[p] = c
                       /\ \A q \in PlayerIds(rooms[c]) \ {p} :
                            rooms[c].players[q].ready
                  /\ HowMany(out', "game-restarted", c) = 1
                  /\ rooms'[c].currentRound = 0
          /\ \A z \in Puzzles :
               ( /\ c \in DOMAIN rooms
                 /\ rooms[c].gameStatus # "finished"
                 /\ LogicRestartGame(c, z) )
               => /\ UNCHANGED <<rooms, playerRooms, roomTimers, timers>>
                  /\ out' = <<Threw("restartGame",
                                    "Can only restart a finished game")>>
      ]_vars

\* C33 witness: both players of a finished game have sent ready; the game is
\* restarted and the countdown of its first round runs
C33_Witness ==
    \E c \in DOMAIN rooms :
        /\ out = <<Emit("game-restarted", c, 0), Emit("countdown-started", c, 1)>>
        /\ rooms[c].gameStatus = "waiting"
        /\ rooms[c].currentRound = 0
        /\ rooms[c].roundResults = << >>
        /\ PlayerCount(rooms[c]) = 2

\* C33 witness of the refusal: restartGame has thrown on a game in play
C33_WitnessRefused ==
    \E c \in DOMAIN rooms :
        /\ out = <<Threw("restartGame", "Can only restart a finished game")>>
        /\ rooms[c].gameStatus = "playing"

(***************************************************************************)
(* C34: from readiness to the next round                                   *)
(***************************************************************************)
\* What the ready-gating asks of a game before its next round
Gated(game) ==
    /\ AllReadyConnected(game)
    /\ \/ game.gameStatus = "waiting" /\ PlayerCount(game) >= MIN_PLAYERS
       \/ game.gameStatus = "between-rounds"

\* A player-ready has just left room c gated after round n
JustGated(c, n) ==
    /\ c \in DOMAIN rooms
    /\ rooms[c].currentRound = n
    /\ Gated(rooms[c])
    /\ HowMany(out, "countdown-started", c) = 1

\* Round n of room c has just started
JustStarted(c, n) ==
    /\ c \in DOMAIN rooms
    /\ rooms[c].roundStatus = "active"
    /\ rooms[c].currentRound = n
    /\ out = <<Emit("round-started", c, n)>>

\* A player-ready that leaves its room gated announces the countdown of the
\* next round and leaves it pending with its full delay
GatedStartsCountdown ==
    [][ \A p \in Ids, r \in BOOLEAN, z \in Puzzles :
          ( /\ playerReadyError(Reg, p) = ""
            /\ PlayerReadyEvent(p, r, z)
            /\ Gated(rooms'[playerRooms[p]]) )
          => LET c == playerRooms[p]
             IN  /\ out' = <<Emit("countdown-started", c,
                                  rooms[c].currentRound + 1)>>
                 /\ rooms'[c].currentRound = rooms[c].currentRound
                 /\ PendingOf(timers', c, "countdown") = 1
                 /\ \E t \in DOMAIN timers' :
                      /\ t.kind = "countdown" /\ t.room = c
                      /\ t.remaining = COUNTDOWN_DURATION
      ]_vars

\* A player-ready starts the countdown of room c anew while one is pending
Rearm(c) ==
    /\ PendingOf(timers, c, "countdown") > 0
    /\ HowMany(out', "countdown-started", c) = 1

\* C34 as stated: a player-ready that leaves a room gated announces the
\* countdown, and with the callbacks run the room then comes to the next
\* round being active and announced by round-started.
C34_GatedRoundStarts ==
    /\ GatedStartsCountdown
    /\ \A c \in Codes, n \in 0..(TOTAL_ROUNDS - 1) :
         JustGated(c, n) ~> JustStarted(c, n + 1)

\* C34 with the countdown left to run: the same, in every run in which the
\* player-ready events do not start a pending countdown anew for ever.
C34_GatedRoundStartsUnlessRearmed ==
    /\ GatedStartsCountdown
    /\ \A c \in Codes, n \in 0..(TOTAL_ROUNDS - 1) :
         \/ []<><<Rearm(c)>>_vars
         \/ JustGated(c, n) ~> JustStarted(c, n + 1)

\* C34 witness: the second round has started, the countdown over
C34_Witness ==
    \E c \in DOMAIN rooms :
        /\ JustStarted(c, 2)
        /\ PendingOf(timers, c, "countdown") = 0
        /\ PendingOf(timers, c, "interval") = 1
        /\ rooms[c].gameStatus = "playing"

(***************************************************************************)
(* C35: a member who is gone                                               *)
(***************************************************************************)
\* Round n of room c is over (or the game has not begun), a member is
\* disconnected, and every connected player has confirmed readiness
ReadyButTheAbsent(c, n) ==
    /\ c \in DOMAIN rooms
    /\ rooms[c].currentRound = n
    /\ ConnectedPlayers(rooms[c]) # PlayerIds(rooms[c])
    /\ \A q \in ConnectedPlayers(rooms[c]) : rooms[c].players[q].ready
    /\ \/ rooms[c].gameStatus = "between-rounds"
          /\ ConnectedPlayers(rooms[c]) # {}
       \/ rooms[c].gameStatus = "waiting"
          /\ Cardinality(ConnectedPlayers(rooms[c])) >= MIN_PLAYERS

\* C35: a disconnected member does not block the others: the player-ready
\* with which every connected player of the room has confirmed readiness,
\* a member being disconnected, starts the countdown of the next round; and
\* a room does not stay for ever with every connected player ready and a
\* member disconnected: the next round starts (or the member returns, or a
\* player takes the readiness back).
C35_DisconnectedDoesNotBlock ==
    /\ [][ \A p \in Ids, z \in Puzzles, n \in 0..(TOTAL_ROUNDS - 1) :
             ( /\ playerReadyError(Reg, p) = ""
               /\ PlayerReadyEvent(p, TRUE, z)
               /\ ReadyButTheAbsent(playerRooms[p], n)' )
             => /\ HowMany(out', "countdown-started", playerRooms[p]) = 1
                /\ PendingOf(timers', playerRooms[p], "countdown") = 1
         ]_vars
    /\ \A c \in Codes, n \in 0..(TOTAL_ROUNDS - 1) :
         []<>(~ReadyButTheAbsent(c, n))

\* C35 witness: round 1 is over, socket 2 has disconnected, socket 1 has
\* sent ready, and nothing is scheduled for the room
C35_Witness ==
    \E c \in DOMAIN rooms :
        /\ ReadyButTheAbsent(c, 1)
        /\ ConnectedPlayers(rooms[c]) = {1}
        /\ timers = EmptyBag
        /\ out = << >>

(***************************************************************************)
(* C36: what the room is told when a round ends                            *)
(***************************************************************************)
\* C36: the step that ends the last round of a game, by the last submission
\* or by the forced end, sends the room game-finished (the game then holds
\* its finalResults) and no round-ended; the step that ends any other round
\* sends round-ended; and round-ended is sent by no step but one that
\* leaves the game between-rounds.
C36_GameFinishedAnnounced ==
    [][ \A c \in DOMAIN rooms \cap DOMAIN rooms' :
          /\ ( rooms[c].gameStatus # "finished"
               /\ rooms'[c].gameStatus = "finished" )
               => /\ HowMany(out', "game-finished", c) = 1
                  /\ HowMany(out', "round-ended", c) = 0
                  /\ rooms'[c].finalResults # Null
          /\ ( rooms[c].gameStatus # "between-rounds"
               /\ rooms'[c].gameStatus = "between-rounds" )
               => /\ HowMany(out', "round-ended", c) = 1
                  /\ HowMany(out', "game-finished", c) = 0
          /\ HowMany(out', "round-ended", c) > 0
               => rooms'[c].gameStatus = "between-rounds"
          /\ HowMany(out', "game-finished", c) > 0
               => rooms'[c].gameStatus = "finished"
      ]_vars

\* C36 witness: the last submission has ended round 3; the game is finished
\* and what the room was sent is round-ended
C36_Witness ==
    \E c \in DOMAIN rooms :
        /\ rooms[c].gameStatus = "finished"
        /\ rooms[c].finalResults # Null
        /\ rooms[c].currentRound = TOTAL_ROUNDS
        /\ out = <<Emit("round-ended", c, TOTAL_ROUNDS)>>
        /\ \A q \in PlayerIds(rooms[c]) :
             rooms[c].players[q].hasSubmittedResults = "true"

(***************************************************************************)
(* C37: the forced end and the round it was scheduled for                  *)
(***************************************************************************)
\* C37: the forced end scheduled at the expiry of a round ends no other
\* round.  No forced end is pending for a room when a round of it becomes
\* active, so one that is pending during an active round was scheduled at
\* the expiry of that round (whose clock is gone); and a forced end
\* that fires when its round was ended by the submissions leaves the game
\* as it is: the next round, or round 1 of the restarted game, begins only
\* when the countdown of 3 s is over, after the 2 s of the forced end.
C37_ForcedEndOfItsRound ==
    /\ [](\A c \in DOMAIN rooms :
            ( PendingOf(timers, c, "grace") > 0
              /\ rooms[c].roundStatus = "active" )
            => /\ PendingOf(timers, c, "grace") = 1
               /\ ClockOf(timers, c) = {})
    /\ [][ \A c \in DOMAIN rooms \cap DOMAIN rooms' :
             /\ ( rooms[c].roundStatus # "active"
                  /\ rooms'[c].roundStatus = "active" )
                  => /\ PendingOf(timers, c, "grace") = 0
                     /\ PendingOf(timers', c, "grace") = 0
             /\ \A t \in Pending :
                  ( t.room = c /\ GraceFire(t)
                    /\ rooms[c].roundStatus # "active" )
                  => /\ rooms'[c] = rooms[c]
                     /\ rooms'[c].roundStatus # "active"
                     /\ out' = << >>
         ]_vars

\* C37 witness: round 1 expired and the submissions ended it within the 2
\* seconds; both players sent ready at once; the forced end has fired since
\* and found the round ended, the countdown of round 2 having 1 second left
C37_Witness ==
    \E c \in DOMAIN rooms :
        /\ rooms[c].gameStatus = "between-rounds"
        /\ rooms[c].currentRound = 1
        /\ \A q \in PlayerIds(rooms[c]) :
             rooms[c].players[q].hasSubmittedResults = "true"
        /\ PendingOf(timers, c, "grace") = 0
        /\ \E t \in Pending :
             /\ t.kind = "countdown" /\ t.room = c
             /\ t.remaining = COUNTDOWN_DURATION - GRACE_SECONDS
        /\ out = << >>

(***************************************************************************)
(* C38: the registry is consistent                                         *)
(***************************************************************************)
\* C38: every playerRooms entry points to a registered room in whose game
\* the player is seated and connected.
C38_RegistryConsistent ==
    \A p \in DOMAIN playerRooms :
        /\ playerRooms[p] \in DOMAIN rooms
        /\ p \in PlayerIds(rooms[playerRooms[p]])
        /\ rooms[playerRooms[p]].players[p].connected

\* C38 witness: socket 2 left room "1000", which socket 1 holds, and opened
\* room "2000"; each socket has its entry, and room "1000" keeps socket 2 as
\* a disconnected member
C38_Witness ==
    /\ DOMAIN playerRooms = {1, 2}
    /\ playerRooms[1] = "1000"
    /\ playerRooms[2] = "2000"
    /\ DOMAIN rooms = {"1000", "2000"}
    /\ PlayerIds(rooms["1000"]) = {1, 2}
    /\ ~rooms["1000"].players[2].connected

(***************************************************************************)
(* C39: after reconnect-to-room                                            *)
(***************************************************************************)
\* C39: an accepted reconnect-to-room leaves the player a full participant:
\* connected, with the playerRooms entry of the room, so that the player's
\* player-ready and submit-round-results are accepted afterwards.
C39_ReconnectRestoresParticipant ==
    [][ \A p \in Ids, c \in Codes :
          ( /\ rejoinRoomError(Reg, c, p) = ""
            /\ ReconnectToRoomEvent(p, c, NameOf(p)) )
          => /\ rooms'[c].players[p].connected
             /\ p \in DOMAIN playerRooms'
             /\ playerRooms'[p] = c
             /\ playerReadyError(Reg, p)' = ""
             /\ submitError(Reg, p)' = ""
      ]_vars

\* C39 witness: socket 2 left the room and came back with reconnect-to-room:
\* it is a connected member and has no playerRooms entry
C39_Witness ==
    \E c \in DOMAIN rooms :
        /\ 2 \in PlayerIds(rooms[c])
        /\ rooms[c].players[2].connected
        /\ 2 \notin DOMAIN playerRooms
        /\ playerReadyError(Reg, 2) = "Player not in any room"
        /\ submitError(Reg, 2) = "Player not in any room"
        /\ leaveRoomReturnsNull(Reg, 2)

(***************************************************************************)
(* C40: what the destruction of a room removes                             *)
(***************************************************************************)
\* C40: the step that destroys room X leaves every playerRooms entry that
\* points to another room as it is, the entry of a former member of X
\* included.
C40_CleanupKeepsOtherEntries ==
    [][ \A x \in RegistryCodes :
          ( x \in DOMAIN rooms /\ x \notin DOMAIN rooms' )
          => \A p \in DOMAIN playerRooms :
               playerRooms[p] # x
               => /\ p \in DOMAIN playerRooms'
                  /\ playerRooms'[p] = playerRooms[p]
      ]_vars

\* C40 witness: socket 1 left room "1000" and opened room "2000"; room
\* "1000" has been destroyed since, and socket 1, the connected player of
\* room "2000", has no playerRooms entry
C40_Witness ==
    /\ DOMAIN rooms = {"2000"}
    /\ PlayerIds(rooms["2000"]) = {1}
    /\ rooms["2000"].players[1].connected
    /\ 1 \notin DOMAIN playerRooms
    /\ timers = EmptyBag

=============================================================================
